---- MODULE Spec2Model ----
(***************************************************************************)
(* KidsCanvas backend: the in-memory transactional store                   *)
(* (backend/app/core/database.py, fallback branch), the in-memory event    *)
(* store (backend/app/core/redis.py), the object-commit service            *)
(* (backend/app/services/objects.py, turns.py) and the turn processor      *)
(* (backend/app/services/turn_processor.py).                               *)
(*                                                                         *)
(* Python objects handed out by the session getters are the stored         *)
(* objects themselves (get_room / get_turn return the dict entry), so an   *)
(* attribute assignment on them changes the store at once, outside the     *)
(* session's pending buffers.  A coroutine function that is called without *)
(* await never runs its body.  Both are modelled as Python executes them.  *)
(***************************************************************************)
EXTENDS Integers, Sequences, FiniteSets, TLC

None == "None"
\* an unset identifier (object_id, turn_id); identifiers are positive
NoId == 0

(* ------------------------------ bounds --------------------------------- *)
\* operations (commit requests, deliveries of turn events, WebSocket
\* connections) started in a run
MaxOps == 3
\* calls to the event store that raise
MaxRedisFailures == 1
\* events appended to the timeline when the event store is exercised on
\* its own: enough for the counter to reach two digits
MaxTimeline == 10
\* of which events of a room other than the subscriber's
MaxOtherRoomEvents == 1
\* items pushed on, and calls of pop on, the turn:events queue
MaxPushes == 3
MaxPops == 4
\* calls of enqueue_json on a RedisWrapper driven on its own
MaxEnqueues == 3
\* calls of _persist that raise (disk full, directory gone)
MaxPersistFailures == 1

Clients == {"c1", "c2"}
Workers == {"p1", "p2"}

(* ------------------------- seeded store contents ----------------------- *)
\* Rooms and strokes are put in the store through the session API before a
\* scenario starts, and the store is reloaded from its JSON state file on
\* start-up, so the initial store already holds one committed object with
\* its turn waiting for the AI and the turn's event on the queue.
Rooms == {"r1", "r2"}
RoomIds == Rooms \cup {"r9"}
StrokeIds == {"s0", "s1", "s2", "s3"}
SeedObjectId == 1
SeedTurnId == 1
SeedTurnSeq(r) == IF r = "r1" THEN 1 ELSE 0

Range(s) == {s[i] : i \in 1..Len(s)}
LastOf(seq) == seq[Len(seq)]

(* ------------------------------ moderation ----------------------------- *)
\* A text is a sequence of lower-cased words; a keyword occurs in a text
\* when it is one of its words.
banned_keywords == <<"violence", "blood", "weapon", "scary", "alcohol">>

NoText == << >>
Labels == {NoText, <<"castle">>, <<"a", "weapon">>}

evaluate_text(text) ==
    LET triggers == SelectSeq(banned_keywords, LAMBDA kw : kw \in Range(text))
    IN  [category |-> "text", passed |-> (triggers = << >>), reasons |-> triggers]

\* evaluate_labels tests list membership of the keyword among the labels,
\* so a label triggers only when it is exactly the keyword.
evaluate_labels(labels) ==
    LET triggers == SelectSeq(banned_keywords, LAMBDA kw : <<kw>> \in Range(labels))
    IN  [category |-> "image", passed |-> (triggers = << >>), reasons |-> triggers]

\* SafetySummary.passed as it would be if it ignored the results
SafetySummary_passed_ignoring_results(results) == TRUE

SafetySummary_passed(results) == \A i \in 1..Len(results) : results[i].passed

RECURSIVE FlattenReasons(_)
FlattenReasons(results) ==
    IF results = << >> THEN << >>
    ELSE Head(results).reasons \o FlattenReasons(Tail(results))

to_payload(results) ==
    [passed |-> SafetySummary_passed(results),
     results |-> results,
     reasons |-> FlattenReasons(results)]

\* _run_safety_checks as it would be without the default result
run_safety_checks_without_default(canvas_object, patch) ==
    LET r1 == IF patch.instructions # NoText
              THEN <<evaluate_text(patch.instructions)>> ELSE << >>
        labels == patch.labels \o
                  (IF canvas_object.label # NoText THEN <<canvas_object.label>> ELSE << >>)
        r2 == IF labels # << >> THEN <<evaluate_labels(labels)>> ELSE << >>
    IN  r1 \o r2

run_safety_checks(canvas_object, patch) ==
    LET r1 == IF patch.instructions # NoText
              THEN <<evaluate_text(patch.instructions)>> ELSE << >>
        labels == patch.labels \o
                  (IF canvas_object.label # NoText THEN <<canvas_object.label>> ELSE << >>)
        r2 == IF labels # << >> THEN <<evaluate_labels(labels)>> ELSE << >>
        results == r1 \o r2
    IN  IF results = << >>
        THEN <<[category |-> "text", passed |-> TRUE, reasons |-> << >>]>>
        ELSE results

(* ------------------------------- state --------------------------------- *)
VARIABLES
    db_rooms,          \* Database._rooms: room id -> Room
    db_strokes,        \* Database._strokes: stroke id -> Stroke
    db_objects,        \* Database._objects: object id -> CanvasObject
    db_turns,          \* Database._turns: turn id -> Turn
    room_turn_index,   \* Database._room_turn_index: room id -> turn ids
    db_audit_logs,     \* Database._audit_logs in insertion order
    lock,              \* Database._lock: its holder, or None
    queues,            \* InMemoryEventStore._queues["turn:events"]
    streams,           \* InMemoryEventStore._streams["ws:events"]
    sequences,         \* InMemoryEventStore._sequences["ws:events"]
    timeline,          \* InMemoryEventStore._timeline
    timeline_seq,      \* InMemoryEventStore._timeline_seq
    next_object_id,    \* uuid4() for CanvasObject
    next_turn_id,      \* uuid4() for Turn
    cli,               \* commit requests: position, arguments, session
    proc,              \* _process_event runs: position, event, locals
    created_turns,     \* history: Turn values built by create_turn_for_object
    delivered,         \* history: events popped from turn:events
    processed,         \* history: turn ids of finished _process_event runs
    ops,               \* commit requests and deliveries started so far
    redis_failures,    \* event-store calls that raised so far
    ws,                \* the room_events WebSocket handler: position, cursor
    es,                \* history: calls made to the turn:events queue
    tp,                \* TurnProcessor: _stop_event, _task, the caller of stop()
    http,              \* the poller of GET /internal/events/next and its last response
    members,           \* Database._members in insertion order
    room_member_index, \* Database._room_member_index: room id -> user ids
    storage,           \* the JSON document at Database._storage_path
    persist_failures,  \* calls of _persist that raised so far
    tx,                \* the last session transaction: body, outcome
    moderation         \* the last call of a moderation function: arguments, result

db_vars == <<db_rooms, db_strokes, db_objects, db_turns, room_turn_index, db_audit_logs>>
redis_vars == <<queues, streams, sequences, timeline, timeline_seq>>
vars == <<db_rooms, db_strokes, db_objects, db_turns, room_turn_index, db_audit_logs,
          lock, queues, streams, sequences, timeline, timeline_seq,
          next_object_id, next_turn_id, cli, proc, created_turns, delivered,
          processed, ops, redis_failures, ws, es,
          tp, http, members, room_member_index, storage, persist_failures, tx, moderation>>

snapshot_vars == <<members, room_member_index, storage, persist_failures, tx>>

(* ------------------------------ records -------------------------------- *)
Turn(id, room_id, sequence, source_object_id) ==
    [id |-> id, room_id |-> room_id, sequence |-> sequence,
     status |-> "waiting_for_ai", current_actor |-> "ai",
     source_object_id |-> source_object_id,
     ai_patch_uri |-> None, safety_status |-> None]

AuditLog(room_id, turn_id, event_type, payload) ==
    [room_id |-> room_id, turn_id |-> turn_id, event_type |-> event_type,
     payload |-> payload]

TurnEvent(turn) ==
    [turn_id |-> turn.id, room_id |-> turn.room_id,
     object_id |-> turn.source_object_id, sequence |-> turn.sequence]

DatabaseSession ==
    [pending_objects |-> << >>, updated_strokes |-> << >>,
     pending_turns |-> << >>, pending_audit_logs |-> << >>]

\* before: the store as it was when the request's transaction began (history)
NoResult == [status |-> 0, detail |-> << >>]
IdleClient == [pc |-> "idle", req |-> None, session |-> None, object |-> None,
               turn |-> None, contended |-> FALSE, before |-> None,
               result |-> NoResult]

\* rerun: a run on the same turn had finished when this run began (history);
\* reread_waiting: the turn was waiting_for_ai when the transition's
\* transaction read it again (history)
IdleWorker == [pc |-> "idle", event |-> None, object |-> None, mark |-> None,
               rerun |-> FALSE, reread_waiting |-> FALSE]

\* `cursor=None`, and the `None` returned for "no event"
NoCursor == << >>
NoEvent == [is_none |-> TRUE]
NoLimit == -1

\* sent: the events passed to websocket.send_json, in order
IdleWs == [pc |-> "idle", room_id |-> None, user_id |-> None, role |-> None,
           cursor |-> NoCursor, sent |-> << >>]

\* TurnProcessor after start(): the flag is clear and the task runs _run.
\* stop: where the caller of stop() is; busy_at_stop: _process_event was
\* running when the flag was set (history)
StartedProcessor == [stop_event |-> FALSE, task |-> "running", stop |-> "idle",
                     busy_at_stop |-> FALSE]

\* The poller of GET /internal/events/next.  cursor: the cursor it sends;
\* status: the status of the last response (0: none yet); received: the
\* events of all responses, in order; read: the last request reached
\* list_timeline_events; token, service_key: the last request's credentials
\* no token in the query string, no Authorization header
NoToken == [is_none |-> TRUE]
\* no X-Service-Key header
NoKey == << >>
IdleHttp == [status |-> 0, detail |-> "none", cursor |-> NoCursor, received |-> << >>,
             read |-> FALSE, token |-> NoToken, service_key |-> NoKey, limit |-> 1,
             events |-> << >>]

\* joined_at: the member's creation time, as a counter
RoomMember(room_id, user_id, role, joined_at) ==
    [room_id |-> room_id, user_id |-> user_id, role |-> role, joined_at |-> joined_at]

\* Database(storage_path=None): _persist and _load_from_disk return at once
NoStorage == [path |-> FALSE]

\* body: the session calls of the transaction and what they saved; outcome:
\* what leaving the `async with` block gave its caller; changed: what
\* commit returned; persisted: _persist wrote the file
NoTx == [body |-> << >>, outcome |-> None, changed |-> FALSE, persisted |-> FALSE]

(* -------------------------------- Init --------------------------------- *)
SeedObject == [id |-> SeedObjectId, room_id |-> "r1", label |-> <<"castle">>,
               status |-> "committed"]
SeedTurn == Turn(SeedTurnId, "r1", 1, SeedObjectId)

\* pushed, popped: the items given to enqueue_queue and returned by
\* pop_queue, in call order; pops: calls of pop_queue; last: what the last
\* call returned.  The seeded turn's event has been pushed.
SeedCalls == [pushed |-> <<TurnEvent(SeedTurn)>>, popped |-> << >>, pops |-> 0,
              last |-> NoEvent]

\* no moderation function has been called
NoModeration == [fn |-> None]

\* The store, the clients and the tasks after start-up
SeededStore ==
    /\ db_rooms = [r \in Rooms |-> [id |-> r, turn_seq |-> SeedTurnSeq(r)]]
    /\ db_strokes = [s \in StrokeIds |->
                       [id |-> s,
                        room_id |-> IF s = "s3" THEN "r2" ELSE "r1",
                        points |-> 2,
                        object_id |-> IF s = "s0" THEN SeedObjectId ELSE NoId]]
    /\ db_objects = (SeedObjectId :> SeedObject)
    /\ db_turns = (SeedTurnId :> SeedTurn)
    /\ room_turn_index = [r \in Rooms |-> IF r = "r1" THEN <<SeedTurnId>> ELSE << >>]
    /\ db_audit_logs = <<AuditLog("r1", NoId, "object.committed", [object_id |-> SeedObjectId]),
                         AuditLog("r1", SeedTurnId, "turn.created", [sequence |-> 1])>>
    /\ lock = None
    /\ next_object_id = SeedObjectId + 1
    /\ next_turn_id = SeedTurnId + 1
    /\ cli = [c \in Clients |-> IdleClient]
    /\ proc = [p \in Workers |-> IdleWorker]
    /\ created_turns = << >>
    /\ delivered = {}
    /\ processed = {}
    /\ ops = 0
    /\ redis_failures = 0
    /\ ws = IdleWs
    /\ tp = StartedProcessor
    /\ http = IdleHttp
    /\ members = <<RoomMember("r1", "u1", "host", 1)>>
    /\ room_member_index = [r \in Rooms |-> IF r = "r1" THEN <<"u1">> ELSE << >>]
    /\ persist_failures = 0
    /\ tx = NoTx

\* The event store after start-up, the seeded turn's event on its queue
SeededEventStore ==
    /\ queues = <<TurnEvent(SeedTurn)>>
    /\ streams = << >>
    /\ sequences = 0
    /\ timeline = << >>
    /\ timeline_seq = 0
    /\ es = SeedCalls

Seeded ==
    /\ SeededStore
    /\ SeededEventStore
    /\ moderation = NoModeration

\* A Database constructed without storage_path (settings.state_file empty)
Init == Seeded /\ storage = NoStorage

(* --------------------- Database.transaction / commit ------------------- *)
\* Database.transaction as it would be without `async with self._lock`
LockFree_without_lock == TRUE

\* `async with self._lock` can be entered
LockFree == lock = None

Put(map, rec) == [k \in DOMAIN map \cup {rec.id} |-> IF k = rec.id THEN rec ELSE map[k]]

RECURSIVE PutAll(_, _)
PutAll(map, recs) ==
    IF recs = << >> THEN map ELSE PutAll(Put(map, Head(recs)), Tail(recs))

RECURSIVE IndexAll(_, _)
IndexAll(index, turns) ==
    IF turns = << >> THEN index
    ELSE LET t == Head(turns)
             idx == IF t.id \in Range(index[t.room_id]) THEN index
                    ELSE [index EXCEPT ![t.room_id] = Append(@, t.id)]
         IN  IndexAll(idx, Tail(turns))

\* DatabaseSession.commit applied to the store maps given as arguments
\* (turns is the map as the transaction body left it, in-place writes included).
commit(session, turns) ==
    /\ db_objects' = PutAll(db_objects, session.pending_objects)
    /\ db_strokes' = PutAll(db_strokes, session.updated_strokes)
    /\ db_turns' = PutAll(turns, session.pending_turns)
    /\ room_turn_index' = IndexAll(room_turn_index, session.pending_turns)
    /\ db_audit_logs' = db_audit_logs \o session.pending_audit_logs

\* Leaving `async with database.transaction()`: the session is committed
\* only when the body returned; an exception skips the commit.  Either way
\* the lock is released.
transaction_exit(session, raised, turns) ==
    /\ IF raised
       THEN /\ db_turns' = turns
            /\ UNCHANGED <<db_objects, db_strokes, room_turn_index, db_audit_logs>>
       ELSE commit(session, turns)
    /\ lock' = None

(* --------------------------- session helpers --------------------------- *)
save_object(session, obj) ==
    [session EXCEPT !.pending_objects = Append(@, obj)]

update_stroke(session, stroke, object_id) ==
    [session EXCEPT !.updated_strokes = Append(@, [stroke EXCEPT !.object_id = object_id])]

save_turn(session, turn) ==
    [session EXCEPT !.pending_turns = Append(@, turn)]

update_turn(session, turn) ==
    [session EXCEPT !.pending_turns = Append(@, turn)]

append_audit_log(session, log) ==
    [session EXCEPT !.pending_audit_logs = Append(@, log)]

\* turns.py line 30 calls `session.save_turn(turn)` without await: the
\* coroutine object is created and dropped, its body never runs.
save_turn_not_awaited(session, turn) == session

RECURSIVE update_strokes(_, _, _)
update_strokes(session, strokes, object_id) ==
    IF strokes = << >> THEN session
    ELSE update_strokes(update_stroke(session, Head(strokes), object_id),
                        Tail(strokes), object_id)

(* ------------------------------ event store ---------------------------- *)
RECURSIVE Digits(_)
Digits(n) == IF n < 10 THEN <<n>> ELSE Append(Digits(n \div 10), n % 10)

\* str(self._timeline_seq): the decimal digits of the counter
str(n) == Digits(n)

\* InMemoryEventStore.enqueue_stream on "ws:events"
enqueue_stream(payload) ==
    LET event == [topic |-> payload.topic, roomId |-> payload.roomId,
                  payload |-> payload.payload,
                  sequence |-> sequences + 1, stream |-> "ws:events"]
    IN  /\ sequences' = sequences + 1
        /\ streams' = Append(streams, event)
        /\ timeline_seq' = timeline_seq + 1
        /\ timeline' = Append(timeline,
                [topic |-> event.topic, roomId |-> event.roomId,
                 payload |-> event.payload, sequence |-> event.sequence,
                 stream |-> event.stream, cursor |-> str(timeline_seq + 1)])
        /\ UNCHANGED queues

\* InMemoryEventStore.list_stream: self._streams.get(stream, []).  Every
\* caller of enqueue_json that names a stream names WS_EVENT_STREAM
\* ("ws:events"), so no other stream ever holds an event.
list_stream(stream) == IF stream = "ws:events" THEN streams ELSE << >>

\* InMemoryEventStore.enqueue_queue on "turn:events"
enqueue_queue(payload) ==
    /\ queues' = Append(queues, payload)
    /\ UNCHANGED <<streams, sequences, timeline, timeline_seq>>

\* InMemoryEventStore.pop_queue as it would be with items.pop()
pop_queue_from_end(items) ==
    IF items = << >> THEN [result |-> NoEvent, items |-> items]
    ELSE [result |-> LastOf(items), items |-> SubSeq(items, 1, Len(items) - 1)]

\* InMemoryEventStore.pop_queue: what it returns and what it leaves
pop_queue(items) ==
    IF items = << >> THEN [result |-> NoEvent, items |-> items]
    ELSE [result |-> Head(items), items |-> Tail(items)]

\* Python's `a > b` on two strings of digits: the first differing character
\* decides, and a proper prefix is the smaller
RECURSIVE str_gt(_, _)
str_gt(a, b) ==
    IF a = << >> THEN FALSE
    ELSE IF b = << >> THEN TRUE
    ELSE IF Head(a) # Head(b) THEN Head(a) > Head(b)
    ELSE str_gt(Tail(a), Tail(b))

\* [event for event in self._timeline if event["cursor"] > cursor]
later_events(cursor) ==
    SelectSeq(timeline, LAMBDA event : str_gt(event.cursor, cursor))

\* InMemoryEventStore.next_timeline_event
next_timeline_event(cursor) ==
    IF cursor = NoCursor
    THEN IF timeline # << >> THEN timeline[1] ELSE NoEvent
    ELSE IF later_events(cursor) # << >> THEN Head(later_events(cursor))
    ELSE NoEvent

\* InMemoryEventStore.list_timeline
list_timeline(cursor, limit) ==
    LET events == IF cursor # NoCursor THEN later_events(cursor) ELSE timeline
    IN  IF limit # NoLimit
        THEN SubSeq(events, 1, IF limit < Len(events) THEN limit ELSE Len(events))
        ELSE events

\* A call to the event store that raises (connection error of the Redis
\* backend); nothing is appended.
RedisMayFail == redis_failures < MaxRedisFailures
redis_raises ==
    /\ RedisMayFail
    /\ redis_failures' = redis_failures + 1
    /\ UNCHANGED redis_vars

(* ------------------------------ object commit -------------------------- *)
\* The commit requests tried: accepted ones (two of them on disjoint strokes
\* of r1, one on r2), and one for each way create_object can refuse.
Req(room_id, stroke_ids, label) ==
    [room_id |-> room_id, stroke_ids |-> stroke_ids, label |-> label]

CommitRequests ==
    { Req("r1", <<"s1">>, NoText),
      Req("r1", <<"s2">>, <<"castle">>),
      Req("r1", <<"s1", "s2">>, NoText),
      Req("r2", <<"s3">>, NoText),
      Req("r1", <<"s1">>, <<"a", "weapon">>),
      Req("r1", <<"s0", "s1">>, NoText),
      Req("r1", <<"s0", "s3">>, NoText),
      Req("r9", <<"s1">>, NoText),
      Req("r1", << >>, <<"a", "weapon">>),
      Req("r1", <<"s9">>, NoText) }

\* session.get_strokes raises LookupError for a missing or foreign stroke
strokes_found(room_id, stroke_ids) ==
    \A i \in 1..Len(stroke_ids) :
        /\ stroke_ids[i] \in DOMAIN db_strokes
        /\ db_strokes[stroke_ids[i]].room_id = room_id

get_strokes(stroke_ids) == [i \in 1..Len(stroke_ids) |-> db_strokes[stroke_ids[i]]]

assigned(strokes) ==
    SelectSeq([i \in 1..Len(strokes) |-> strokes[i]], LAMBDA st : st.object_id # NoId)

RECURSIVE TotalPoints(_)
TotalPoints(strokes) ==
    IF strokes = << >> THEN 0 ELSE Head(strokes).points + TotalPoints(Tail(strokes))

\* create_object as it would be without the test for assigned strokes
create_object_status_without_conflict_test(req) ==
    IF req.stroke_ids = << >> THEN 400
    ELSE IF req.room_id \notin DOMAIN db_rooms THEN 404
    ELSE IF ~strokes_found(req.room_id, req.stroke_ids) THEN 400
    ELSE IF TotalPoints(get_strokes(req.stroke_ids)) = 0 THEN 400
    ELSE IF req.label # NoText /\ ~evaluate_text(req.label).passed THEN 422
    ELSE 201

\* create_object as it would be without the moderation of the label
create_object_status_without_moderation(req) ==
    IF req.stroke_ids = << >> THEN 400
    ELSE IF req.room_id \notin DOMAIN db_rooms THEN 404
    ELSE IF ~strokes_found(req.room_id, req.stroke_ids) THEN 400
    ELSE IF assigned(get_strokes(req.stroke_ids)) # << >> THEN 409
    ELSE IF TotalPoints(get_strokes(req.stroke_ids)) = 0 THEN 400
    ELSE 201

\* create_object as it would be without the room lookup
create_object_status_without_room_lookup(req) ==
    IF req.stroke_ids = << >> THEN 400
    ELSE IF ~strokes_found(req.room_id, req.stroke_ids) THEN 400
    ELSE IF assigned(get_strokes(req.stroke_ids)) # << >> THEN 409
    ELSE IF TotalPoints(get_strokes(req.stroke_ids)) = 0 THEN 400
    ELSE IF req.label # NoText /\ ~evaluate_text(req.label).passed THEN 422
    ELSE 201

\* The checks of create_object in the order the code makes them; 201 means
\* that none of them raised.
create_object_status(req) ==
    IF req.stroke_ids = << >> THEN 400
    ELSE IF req.room_id \notin DOMAIN db_rooms THEN 404
    ELSE IF ~strokes_found(req.room_id, req.stroke_ids) THEN 400
    ELSE IF assigned(get_strokes(req.stroke_ids)) # << >> THEN 409
    ELSE IF TotalPoints(get_strokes(req.stroke_ids)) = 0 THEN 400
    ELSE IF req.label # NoText /\ ~evaluate_text(req.label).passed THEN 422
    ELSE 201

create_object_detail(req, code) ==
    IF code = 409 THEN [i \in 1..Len(assigned(get_strokes(req.stroke_ids))) |->
                            assigned(get_strokes(req.stroke_ids))[i].id]
    ELSE IF code = 422 THEN evaluate_text(req.label).reasons
    ELSE << >>

\* create_turn_for_object as it would be if the increment were lost
increment_turn_seq_lost(room_id) == db_rooms

\* room.turn_seq += 1 on the Room returned by get_room, which is the stored
\* Room: the store changes at this statement.
increment_turn_seq(room_id) ==
    [db_rooms EXCEPT ![room_id].turn_seq = @ + 1]

Failure(code, detail) == [status |-> code, detail |-> detail]

\* A commit request arrives (POST /rooms/{room_id}/objects); its handler
\* runs inside get_db_session's transaction, so it first waits for the lock.
\* Request slots are interchangeable: a new request takes the first free one.
Request(c, req) ==
    /\ cli[c].pc = "idle"
    /\ (c = "c1" \/ cli["c1"].pc # "idle")
    /\ ops < MaxOps
    /\ ops' = ops + 1
    /\ cli' = [cli EXCEPT ![c] = [IdleClient EXCEPT !.pc = "waiting", !.req = req,
                                                   !.contended = (lock # None)]]
    /\ UNCHANGED <<ws, es, db_vars, lock, redis_vars, next_object_id, next_turn_id, proc,
                   created_turns, delivered, processed, redis_failures>>
    /\ UNCHANGED <<tp, http, snapshot_vars, moderation>>

\* create_object up to its first call to the event store: the checks, and
\* when none raises, save_object, update_stroke, the object.committed audit
\* log and create_turn_for_object up to its turn.created audit log.
CreateObject(c) ==
    LET req == cli[c].req
        code == create_object_status(req)
    IN
    /\ cli[c].pc = "waiting"
    /\ LockFree
    /\ IF code # 201
       THEN \* HTTPException: the body raises, the transaction exits
            LET session == IF code = 422
                           THEN append_audit_log(DatabaseSession,
                                    AuditLog(req.room_id, NoId, "object.blocked",
                                             [reasons |-> evaluate_text(req.label).reasons]))
                           ELSE DatabaseSession
            IN  /\ transaction_exit(session, TRUE, db_turns)
                /\ cli' = [cli EXCEPT ![c] = [IdleClient EXCEPT
                                         !.result = Failure(code, create_object_detail(req, code))]]
                /\ UNCHANGED <<db_rooms, next_object_id, next_turn_id, created_turns>>
       ELSE LET strokes == get_strokes(req.stroke_ids)
                canvas_object == [id |-> next_object_id, room_id |-> req.room_id,
                                  label |-> req.label, status |-> "committed"]
                s1 == save_object(DatabaseSession, canvas_object)
                s2 == update_strokes(s1, strokes, canvas_object.id)
                s3 == append_audit_log(s2,
                          AuditLog(req.room_id, NoId, "object.committed",
                                   [object_id |-> canvas_object.id,
                                    stroke_ids |-> req.stroke_ids]))
                rooms1 == increment_turn_seq(req.room_id)
                turn == Turn(next_turn_id, req.room_id, rooms1[req.room_id].turn_seq,
                             canvas_object.id)
                s4 == save_turn_not_awaited(s3, turn)
                s5 == append_audit_log(s4,
                          AuditLog(req.room_id, turn.id, "turn.created",
                                   [sequence |-> turn.sequence]))
            IN  /\ lock' = c
                /\ db_rooms' = rooms1
                /\ next_object_id' = next_object_id + 1
                /\ next_turn_id' = next_turn_id + 1
                /\ created_turns' = Append(created_turns,
                                           [turn |-> turn, client |-> c,
                                            contended |-> cli[c].contended])
                /\ cli' = [cli EXCEPT ![c].pc = "enqueue_turn_event",
                                      ![c].before = db_vars,
                                      ![c].session = s5,
                                      ![c].object = canvas_object,
                                      ![c].turn = turn]
                /\ UNCHANGED <<db_strokes, db_objects, db_turns, room_turn_index,
                               db_audit_logs>>
    /\ UNCHANGED <<ws, es, redis_vars, proc, delivered, processed, ops, redis_failures>>
    /\ UNCHANGED <<tp, http, snapshot_vars, moderation>>

\* The handler's call to the event store raised: the exception leaves the
\* transaction without a commit.
Abort(c) ==
    /\ transaction_exit(cli[c].session, TRUE, db_turns)
    /\ cli' = [cli EXCEPT ![c] = [IdleClient EXCEPT !.result = Failure(500, << >>)]]

\* create_turn_for_object: redis.enqueue_turn_event(TURN_QUEUE_KEY, ...)
EnqueueTurnEvent(c) ==
    /\ cli[c].pc = "enqueue_turn_event"
    /\ \/ /\ enqueue_queue(TurnEvent(cli[c].turn))
          /\ es' = [es EXCEPT !.pushed = Append(@, TurnEvent(cli[c].turn))]
          /\ cli' = [cli EXCEPT ![c].pc = "broadcast"]
          /\ UNCHANGED <<db_vars, lock, redis_failures>>
       \/ /\ redis_raises
          /\ Abort(c)
          /\ UNCHANGED <<db_rooms, es>>
    /\ UNCHANGED <<ws, next_object_id, next_turn_id, proc, created_turns, delivered,
                   processed, ops>>
    /\ UNCHANGED <<tp, http, snapshot_vars, moderation>>

\* create_object: broadcast_object_event(redis, ...) on WS_EVENT_STREAM
BroadcastObjectEvent(c) ==
    /\ cli[c].pc = "broadcast"
    /\ \/ /\ enqueue_stream([topic |-> "object", roomId |-> cli[c].object.room_id,
                             payload |-> [id |-> cli[c].object.id,
                                          turnId |-> cli[c].turn.id]])
          /\ cli' = [cli EXCEPT ![c].pc = "commit"]
          /\ UNCHANGED <<db_vars, lock, redis_failures>>
       \/ /\ redis_raises
          /\ Abort(c)
          /\ UNCHANGED db_rooms
    /\ UNCHANGED <<ws, es, next_object_id, next_turn_id, proc, created_turns, delivered,
                   processed, ops>>
    /\ UNCHANGED <<tp, http, snapshot_vars, moderation>>

\* The handler returned: Database.transaction commits the session and
\* releases the lock; the response carries the object, the turn and the room.
Commit(c) ==
    /\ cli[c].pc = "commit"
    /\ transaction_exit(cli[c].session, FALSE, db_turns)
    /\ cli' = [cli EXCEPT ![c] = [IdleClient EXCEPT
                                     !.contended = cli[c].contended,
                                     !.result = [status |-> 201, detail |-> << >>,
                                                 object |-> cli[c].object,
                                                 turn |-> cli[c].turn,
                                                 room |-> db_rooms[cli[c].req.room_id]]]]
    /\ UNCHANGED <<ws, es, db_rooms, redis_vars, next_object_id, next_turn_id, proc,
                   created_turns, delivered, processed, ops, redis_failures>>
    /\ UNCHANGED <<tp, http, snapshot_vars, moderation>>

CommitNext ==
    \E c \in Clients :
        \/ \E req \in CommitRequests : Request(c, req)
        \/ CreateObject(c)
        \/ EnqueueTurnEvent(c)
        \/ BroadcastObjectEvent(c)
        \/ Commit(c)

(* ------------------------------ turn processor ------------------------- *)
\* What the AI agent may answer: a transport error / non-2xx / timeout, or
\* a 200 body {patch, cacheDir}.
Patch(instructions, labels) == [instructions |-> instructions, labels |-> labels]

AgentResponses ==
    { [ok |-> FALSE, patch |-> Patch(NoText, << >>), cacheDir |-> None],
      [ok |-> TRUE, patch |-> Patch(<<"draw", "tower">>, << >>), cacheDir |-> "/tmp/ai"],
      [ok |-> TRUE, patch |-> Patch(<<"draw", "tower">>, << >>), cacheDir |-> None],
      [ok |-> TRUE, patch |-> Patch(<<"draw", "tower">>, << >>), cacheDir |-> ""],
      [ok |-> TRUE, patch |-> Patch(<<"add", "spooky", "blood">>, <<<<"weapon">>>>),
       cacheDir |-> "/tmp/ai"] }

\* `safety=None` of _mark_turn_blocked, and its null in the payloads
NoSafety == [is_none |-> TRUE]

\* _process_event has returned or raised
finish(p, pc) ==
    /\ proc' = [proc EXCEPT ![p] = [IdleWorker EXCEPT !.pc = pc,
                                                     !.event = proc[p].event,
                                                     !.rerun = proc[p].rerun]]
    /\ processed' = processed \cup {proc[p].event.turn_id}

\* Worker slots are interchangeable: a new run takes the first free one.
start(p, event) ==
    /\ proc[p].pc = "idle"
    /\ (p = "p1" \/ proc["p1"].pc # "idle")
    /\ ops < MaxOps
    /\ ops' = ops + 1
    /\ proc' = [proc EXCEPT ![p] = [IdleWorker EXCEPT
                                      !.pc = "load", !.event = event,
                                      !.rerun = (event.turn_id \in processed)]]

\* _run: the loop condition found the stop flag clear and
\* pop_event(TURN_QUEUE_KEY) returned a payload, which is decoded and
\* handed to _process_event.
Deliver(p) ==
    /\ tp.task = "running"
    /\ ~tp.stop_event
    /\ queues # << >>
    /\ start(p, pop_queue(queues).result)
    /\ queues' = pop_queue(queues).items
    /\ delivered' = delivered \cup {pop_queue(queues).result}
    /\ es' = [es EXCEPT !.popped = Append(@, pop_queue(queues).result),
                        !.pops = @ + 1,
                        !.last = pop_queue(queues).result]
    /\ UNCHANGED <<ws, db_vars, lock, streams, sequences, timeline, timeline_seq,
                   next_object_id, next_turn_id, cli, created_turns, processed, redis_failures>>
    /\ UNCHANGED <<tp, http, snapshot_vars, moderation>>

\* _process_event is called again for an event that was delivered before
\* (at-least-once delivery).
Redeliver(p) ==
    /\ \E event \in delivered : start(p, event)
    /\ UNCHANGED <<ws, es, db_vars, lock, redis_vars, next_object_id, next_turn_id, cli,
                   created_turns, delivered, processed,
                   redis_failures>>
    /\ UNCHANGED <<tp, http, snapshot_vars, moderation>>

\* _load_turn_context as it would be if it skipped completed turns only
load_turn_context_skipping_completed_only(event) ==
    IF event.turn_id \notin DOMAIN db_turns THEN None
    ELSE IF db_turns[event.turn_id].status = "ai_completed" THEN None
    ELSE IF event.object_id \notin DOMAIN db_objects THEN None
    ELSE "loaded"

\* _load_turn_context as it would be without the status test
load_turn_context_without_status_test(event) ==
    IF event.turn_id \notin DOMAIN db_turns THEN None
    ELSE IF event.object_id \notin DOMAIN db_objects THEN None
    ELSE "loaded"

\* _load_turn_context: None when the turn is missing, is not waiting_for_ai
\* or the object is missing; else the stored object.
load_turn_context(event) ==
    IF event.turn_id \notin DOMAIN db_turns THEN None
    ELSE IF db_turns[event.turn_id].status # "waiting_for_ai" THEN None
    ELSE IF event.object_id \notin DOMAIN db_objects THEN None
    ELSE "loaded"

\* The read-only transaction of _load_turn_context; its commit finds every
\* pending buffer empty.
LoadTurnContext(p) ==
    /\ proc[p].pc = "load"
    /\ LockFree
    /\ IF load_turn_context(proc[p].event) = None
       THEN finish(p, "idle")
       ELSE /\ proc' = [proc EXCEPT ![p].pc = "generate",
                                    ![p].object = db_objects[proc[p].event.object_id]]
            /\ UNCHANGED processed
    /\ UNCHANGED <<ws, es, db_vars, lock, redis_vars, next_object_id, next_turn_id, cli,
                   created_turns, delivered, ops,
                   redis_failures>>
    /\ UNCHANGED <<tp, http, snapshot_vars, moderation>>

\* client.post("/generate") returned or raised; on a 200 the patch is
\* moderated and the run goes on to one of the two transitions.
Generate(p) ==
    /\ proc[p].pc = "generate"
    /\ \E response \in AgentResponses :
         LET safety == run_safety_checks(proc[p].object, response.patch)
         IN  proc' = [proc EXCEPT
                ![p].pc = IF response.ok /\ SafetySummary_passed(safety)
                          THEN "mark_turn_completed" ELSE "mark_turn_blocked",
                ![p].mark = IF ~response.ok
                            THEN [reason |-> "exc", safety |-> NoSafety,
                                  cache_dir |-> None]
                            ELSE IF ~SafetySummary_passed(safety)
                            THEN [reason |-> "policy_violation",
                                  safety |-> to_payload(safety), cache_dir |-> None]
                            ELSE [reason |-> None, safety |-> to_payload(safety),
                                  cache_dir |-> response.cacheDir]]
    /\ UNCHANGED <<ws, es, db_vars, lock, redis_vars, next_object_id, next_turn_id, cli,
                   created_turns, delivered, processed, ops, redis_failures>>
    /\ UNCHANGED <<tp, http, snapshot_vars, moderation>>

\* The assignments _mark_turn_completed makes to the Turn that get_turn
\* returned (the stored Turn)
completed_turn(turn, cache_dir) ==
    [turn EXCEPT !.status = "ai_completed", !.current_actor = "player",
                 !.safety_status = "passed",
                 !.ai_patch_uri = IF cache_dir # None THEN cache_dir ELSE @]

\* _mark_turn_blocked as it would be if it treated every block alike
blocked_turn_without_error_status(turn, safety) ==
    [turn EXCEPT !.status = "blocked", !.current_actor = "player",
                 !.safety_status = "blocked"]

\* The assignments _mark_turn_blocked makes to the stored Turn
blocked_turn(turn, safety) ==
    [turn EXCEPT !.status = "blocked",
                 !.current_actor = IF safety = NoSafety THEN "ai" ELSE "player",
                 !.safety_status = IF safety = NoSafety THEN "error" ELSE "blocked"]

\* The transaction of _mark_turn_completed
MarkTurnCompleted(p) ==
    LET event == proc[p].event
        mark == proc[p].mark
    IN
    /\ proc[p].pc = "mark_turn_completed"
    /\ LockFree
    /\ IF event.turn_id \notin DOMAIN db_turns
       THEN \* get_turn raises LookupError, which nothing catches
            /\ transaction_exit(DatabaseSession, TRUE, db_turns)
            /\ finish(p, "crashed")
       ELSE LET turn == completed_turn(db_turns[event.turn_id], mark.cache_dir)
                s1 == append_audit_log(DatabaseSession,
                          AuditLog(turn.room_id, turn.id, "turn.ai.completed",
                                   [sequence |-> turn.sequence,
                                    cache_dir |-> mark.cache_dir,
                                    status |-> turn.status,
                                    safety |-> mark.safety]))
                s2 == update_turn(s1, turn)
            IN  /\ transaction_exit(s2, FALSE, [db_turns EXCEPT ![turn.id] = turn])
                /\ proc' = [proc EXCEPT
                       ![p].pc = "emit_completed",
                       ![p].reread_waiting =
                           (db_turns[event.turn_id].status = "waiting_for_ai")]
                /\ UNCHANGED processed
    /\ UNCHANGED <<ws, es, db_rooms, redis_vars, next_object_id, next_turn_id, cli,
                   created_turns, delivered, ops,
                   redis_failures>>
    /\ UNCHANGED <<tp, http, snapshot_vars, moderation>>

\* The transaction of _mark_turn_blocked
MarkTurnBlocked(p) ==
    LET event == proc[p].event
        mark == proc[p].mark
    IN
    /\ proc[p].pc = "mark_turn_blocked"
    /\ LockFree
    /\ IF event.turn_id \notin DOMAIN db_turns
       THEN \* LookupError: _mark_turn_blocked returns from inside the
            \* transaction, which commits its empty session
            /\ transaction_exit(DatabaseSession, FALSE, db_turns)
            /\ finish(p, "idle")
       ELSE LET turn == blocked_turn(db_turns[event.turn_id], mark.safety)
                s1 == append_audit_log(DatabaseSession,
                          AuditLog(turn.room_id, turn.id, "turn.ai.blocked",
                                   [sequence |-> turn.sequence,
                                    reason |-> mark.reason,
                                    safety |-> mark.safety]))
                s2 == update_turn(s1, turn)
            IN  /\ transaction_exit(s2, FALSE, [db_turns EXCEPT ![turn.id] = turn])
                /\ proc' = [proc EXCEPT
                       ![p].pc = "emit_blocked",
                       ![p].reread_waiting =
                           (db_turns[event.turn_id].status = "waiting_for_ai")]
                /\ UNCHANGED processed
    /\ UNCHANGED <<ws, es, db_rooms, redis_vars, next_object_id, next_turn_id, cli,
                   created_turns, delivered, ops, redis_failures>>
    /\ UNCHANGED <<tp, http, snapshot_vars, moderation>>

turn_event_payload(p) ==
    LET event == proc[p].event
        mark == proc[p].mark
    IN  [topic |-> "turn", roomId |-> event.room_id,
         payload |-> IF proc[p].pc = "emit_completed"
                     THEN [turnId |-> event.turn_id, sequence |-> event.sequence,
                           status |-> "ai_completed", safetyStatus |-> "passed",
                           safety |-> mark.safety]
                     ELSE [turnId |-> event.turn_id, sequence |-> event.sequence,
                           status |-> "blocked",
                           safetyStatus |-> IF mark.safety = NoSafety THEN "error"
                                            ELSE "blocked",
                           reason |-> mark.reason, safety |-> mark.safety]]

\* redis.enqueue_json(WS_EVENT_STREAM, ...) after either transaction; when
\* it raises, the exception leaves _process_event and ends _run.
Emit(p) ==
    /\ proc[p].pc \in {"emit_completed", "emit_blocked"}
    /\ \/ /\ enqueue_stream(turn_event_payload(p))
          /\ finish(p, "idle")
          /\ UNCHANGED redis_failures
       \/ /\ redis_raises
          /\ finish(p, "crashed")
    /\ UNCHANGED <<ws, es, db_vars, lock, next_object_id, next_turn_id, cli, created_turns,
                   delivered, ops>>
    /\ UNCHANGED <<tp, http, snapshot_vars, moderation>>

WorkerNext ==
    \E p \in Workers :
        \/ Deliver(p)
        \/ Redeliver(p)
        \/ LoadTurnContext(p)
        \/ Generate(p)
        \/ MarkTurnCompleted(p)
        \/ MarkTurnBlocked(p)
        \/ Emit(p)

(* ------------------------------ snapshot ------------------------------- *)
\* the keys of Database._members: (room id, user id)
db_members == {<<members[i].room_id, members[i].user_id>> : i \in 1..Len(members)}

\* str(uuid) and UUID(text): an identifier and its canonical string form
uuid_str(id) == [hex |-> id]
UUID(text) == text.hex

\* JSON null, which json.load gives back as None
JsonNull == [null |-> TRUE]

\* EnumClass(value): the member with that value; an unknown value is an error
ObjectStatus(value) == CHOOSE m \in {"draft", "committed"} : m = value
TurnStatus(value) == CHOOSE m \in {"waiting_for_ai", "ai_completed", "blocked"} : m = value
TurnActor(value) == CHOOSE m \in {"player", "ai"} : m = value
RoomRole(value) == CHOOSE m \in {"host", "participant"} : m = value

\* str() of a StrEnum member is its value, which is what the model's
\* status, actor and role fields hold.
serialise_room(room) == [id |-> uuid_str(room.id), turn_seq |-> room.turn_seq]

deserialise_room(data) == [id |-> UUID(data.id), turn_seq |-> data.turn_seq]

\* _serialise_stroke as it would be if it never wrote object_id
serialise_stroke_without_object_id(stroke) ==
    [id |-> uuid_str(stroke.id), room_id |-> uuid_str(stroke.room_id),
     path |-> stroke.points, object_id |-> JsonNull]

serialise_stroke(stroke) ==
    [id |-> uuid_str(stroke.id), room_id |-> uuid_str(stroke.room_id),
     path |-> stroke.points,
     object_id |-> IF stroke.object_id # NoId THEN uuid_str(stroke.object_id)
                   ELSE JsonNull]

deserialise_stroke(data) ==
    [id |-> UUID(data.id), room_id |-> UUID(data.room_id), points |-> data.path,
     object_id |-> IF data.object_id # JsonNull THEN UUID(data.object_id) ELSE NoId]

serialise_object(obj) ==
    [id |-> uuid_str(obj.id), room_id |-> uuid_str(obj.room_id),
     status |-> obj.status, label |-> obj.label]

deserialise_object(data) ==
    [id |-> UUID(data.id), room_id |-> UUID(data.room_id), label |-> data.label,
     status |-> ObjectStatus(data.status)]

serialise_turn(turn) ==
    [id |-> uuid_str(turn.id), room_id |-> uuid_str(turn.room_id),
     sequence |-> turn.sequence, status |-> turn.status,
     current_actor |-> turn.current_actor,
     source_object_id |-> uuid_str(turn.source_object_id),
     ai_patch_uri |-> turn.ai_patch_uri, safety_status |-> turn.safety_status]

deserialise_turn(data) ==
    [id |-> UUID(data.id), room_id |-> UUID(data.room_id),
     sequence |-> data.sequence, status |-> TurnStatus(data.status),
     current_actor |-> TurnActor(data.current_actor),
     source_object_id |-> UUID(data.source_object_id),
     ai_patch_uri |-> data.ai_patch_uri, safety_status |-> data.safety_status]

serialise_audit(log) ==
    [room_id |-> uuid_str(log.room_id),
     turn_id |-> IF log.turn_id # NoId THEN uuid_str(log.turn_id) ELSE JsonNull,
     event_type |-> log.event_type, payload |-> log.payload]

deserialise_audit(data) ==
    AuditLog(UUID(data.room_id),
             IF data.turn_id # JsonNull THEN UUID(data.turn_id) ELSE NoId,
             data.event_type, data.payload)

serialise_member(member) ==
    [room_id |-> uuid_str(member.room_id), user_id |-> uuid_str(member.user_id),
     role |-> member.role, joined_at |-> member.joined_at]

deserialise_member(data) ==
    RoomMember(UUID(data.room_id), UUID(data.user_id), RoomRole(data.role),
               data.joined_at)

\* The entity maps and indexes of a Database
Store ==
    [rooms |-> db_rooms, strokes |-> db_strokes, objects |-> db_objects,
     turns |-> db_turns, audit_logs |-> db_audit_logs, members |-> members,
     room_member_index |-> room_member_index, room_turn_index |-> room_turn_index]

RECURSIVE Ascending(_)
Ascending(ids) ==
    IF ids = {} THEN << >>
    ELSE LET least == CHOOSE i \in ids : \A j \in ids : i <= j
         IN  <<least>> \o Ascending(ids \ {least})

\* store.turns.values(): a dict lists its values in insertion order.  Turn
\* ids are issued in increasing order and a turn is inserted by the
\* transaction that creates it, so insertion order is the order of the ids.
turns_values(store) ==
    LET ids == Ascending(DOMAIN store.turns)
    IN  [i \in 1..Len(ids) |-> store.turns[ids[i]]]

\* The payload _persist dumps.  The arrays of rooms, strokes and objects
\* are kept as sets: _load_from_disk uses their order for nothing but the
\* order of the dicts it builds.
payload_of(store) ==
    [rooms |-> {serialise_room(store.rooms[r]) : r \in DOMAIN store.rooms},
     strokes |-> {serialise_stroke(store.strokes[k]) : k \in DOMAIN store.strokes},
     objects |-> {serialise_object(store.objects[o]) : o \in DOMAIN store.objects},
     turns |-> [i \in 1..Len(turns_values(store)) |->
                  serialise_turn(turns_values(store)[i])],
     audit_logs |-> [i \in 1..Len(store.audit_logs) |->
                       serialise_audit(store.audit_logs[i])],
     members |-> [i \in 1..Len(store.members) |->
                    serialise_member(store.members[i])]]

\* for member in self._members.values():
\*     self._room_member_index[member.room_id].append(member.user_id)
RECURSIVE rebuild_member_index(_, _)
rebuild_member_index(index, loaded_members) ==
    IF loaded_members = << >> THEN index
    ELSE rebuild_member_index(
             [index EXCEPT ![Head(loaded_members).room_id] =
                               Append(@, Head(loaded_members).user_id)],
             Tail(loaded_members))

\* for turn in self._turns.values():
\*     self._room_turn_index[turn.room_id].append(turn.id)
RECURSIVE rebuild_turn_index(_, _)
rebuild_turn_index(index, loaded_turns) ==
    IF loaded_turns = << >> THEN index
    ELSE rebuild_turn_index(
             [index EXCEPT ![Head(loaded_turns).room_id] =
                               Append(@, Head(loaded_turns).id)],
             Tail(loaded_turns))

EmptyIndex == [r \in Rooms |-> << >>]

\* _load_from_disk on the document data
load_from_disk(data) ==
    LET loaded_turns == [i \in 1..Len(data.turns) |-> deserialise_turn(data.turns[i])]
        loaded_members ==
            [i \in 1..Len(data.members) |-> deserialise_member(data.members[i])]
    IN  [rooms |-> [id \in {UUID(item.id) : item \in data.rooms} |->
                      deserialise_room(CHOOSE item \in data.rooms : UUID(item.id) = id)],
         strokes |-> [id \in {UUID(item.id) : item \in data.strokes} |->
                      deserialise_stroke(CHOOSE item \in data.strokes : UUID(item.id) = id)],
         objects |-> [id \in {UUID(item.id) : item \in data.objects} |->
                      deserialise_object(CHOOSE item \in data.objects : UUID(item.id) = id)],
         turns |-> [id \in {loaded_turns[i].id : i \in 1..Len(loaded_turns)} |->
                      LET i == CHOOSE i \in 1..Len(loaded_turns) :
                                   /\ loaded_turns[i].id = id
                                   /\ \A j \in i + 1..Len(loaded_turns) :
                                          loaded_turns[j].id # id
                      IN  loaded_turns[i]],
         audit_logs |-> [i \in 1..Len(data.audit_logs) |->
                           deserialise_audit(data.audit_logs[i])],
         members |-> loaded_members,
         room_member_index |->
             rebuild_member_index(EmptyIndex, loaded_members),
         room_turn_index |->
             rebuild_turn_index(EmptyIndex, loaded_turns)]

\* the file at the storage path holding document data
File(data) == [path |-> TRUE, data |-> data]

\* for member in self._pending_members: the dict entry and, for a new key,
\* the index entry
RECURSIVE commit_members(_, _)
commit_members(store, pending_members) ==
    IF pending_members = << >> THEN store
    ELSE LET member == Head(pending_members)
             known == \E i \in 1..Len(store.members) :
                          /\ store.members[i].room_id = member.room_id
                          /\ store.members[i].user_id = member.user_id
             saved == IF known
                      THEN [i \in 1..Len(store.members) |->
                              IF /\ store.members[i].room_id = member.room_id
                                 /\ store.members[i].user_id = member.user_id
                              THEN member ELSE store.members[i]]
                      ELSE Append(store.members, member)
             index == IF known THEN store.room_member_index
                      ELSE [store.room_member_index EXCEPT
                                ![member.room_id] = Append(@, member.user_id)]
         IN  commit_members([store EXCEPT !.members = saved,
                                          !.room_member_index = index],
                            Tail(pending_members))

\* The session calls a transaction body makes, each awaited: none (a
\* read-only body), save_room_member of a user who joins a room,
\* save_turn of the next turn of a room, update_turn of the seeded turn once
\* the AI's patch was blocked.
UserIds == {"u1", "u2"}

Call(op, room_id, user_id) == [op |-> op, room_id |-> room_id, user_id |-> user_id]

TransactionBodies ==
    {<< >>}
    \cup {<<Call("save_room_member", r, u)>> : r \in Rooms, u \in UserIds}
    \cup {<<Call("save_turn", r, None)>> : r \in Rooms}
    \cup {<<Call("update_turn", "r1", None)>>}

\* the entity a call hands to the session
argument(call) ==
    IF call.op = "save_room_member"
    THEN RoomMember(call.room_id, call.user_id, "participant", Len(members) + 1)
    ELSE IF call.op = "save_turn"
    THEN Turn(next_turn_id, call.room_id, Len(room_turn_index[call.room_id]) + 1,
              SeedObjectId)
    ELSE [db_turns[SeedTurnId] EXCEPT !.status = "blocked",
                                     !.safety_status = "blocked"]

\* join_room saves a member only after get_room_member raised
\* member_not_found: a user who is a member already is not saved again.
made(call) ==
    call.op = "save_room_member" => <<call.room_id, call.user_id>> \notin db_members

CallsOf(body, ops_) == SelectSeq(body, LAMBDA call : call.op \in ops_)

\* `async with database.transaction() as session:` around a body that
\* returns: commit, then _persist when commit reported a change.  An
\* exception of _persist leaves the `async with` block after the commit.
Transaction(body) ==
    LET calls == SelectSeq(body, made)
        turn_calls == CallsOf(calls, {"save_turn", "update_turn"})
        member_calls == CallsOf(calls, {"save_room_member"})
        pending_turns == [i \in 1..Len(turn_calls) |-> argument(turn_calls[i])]
        pending_members == [i \in 1..Len(member_calls) |-> argument(member_calls[i])]
        saved == [i \in 1..Len(calls) |->
                    [op |-> calls[i].op, arg |-> argument(calls[i])]]
        session == [DatabaseSession EXCEPT !.pending_turns = pending_turns]
        changed == pending_turns # << >> \/ pending_members # << >>
        with_members == commit_members(Store, pending_members)
        committed == [with_members EXCEPT
                         !.turns = PutAll(db_turns, pending_turns),
                         !.room_turn_index = IndexAll(room_turn_index, pending_turns)]
    IN  /\ storage # NoStorage
        /\ lock = None
        /\ ops < MaxOps
        /\ ops' = ops + 1
        /\ transaction_exit(session, FALSE, db_turns)
        /\ members' = with_members.members
        /\ room_member_index' = with_members.room_member_index
        /\ next_turn_id' = next_turn_id + Len(CallsOf(calls, {"save_turn"}))
        /\ IF ~changed
           THEN /\ tx' = [body |-> saved, outcome |-> "returned", changed |-> FALSE,
                          persisted |-> FALSE]
                /\ UNCHANGED <<storage, persist_failures>>
           ELSE \/ /\ storage' = File(payload_of(committed))
                   /\ tx' = [body |-> saved, outcome |-> "returned", changed |-> TRUE,
                             persisted |-> TRUE]
                   /\ UNCHANGED persist_failures
                \/ /\ persist_failures < MaxPersistFailures
                   /\ persist_failures' = persist_failures + 1
                   /\ tx' = [body |-> saved, outcome |-> "raised", changed |-> TRUE,
                             persisted |-> FALSE]
                   /\ UNCHANGED storage
        /\ UNCHANGED <<db_rooms, redis_vars, next_object_id, cli, proc, created_turns,
                       delivered, processed, redis_failures, ws, es, tp, http, moderation>>

\* The process starts again: Database(storage_path) builds its maps and
\* indexes from the file.
Restart ==
    LET loaded == load_from_disk(storage.data)
    IN  /\ storage # NoStorage
        /\ tx.outcome # "loaded"
        /\ db_rooms' = loaded.rooms
        /\ db_strokes' = loaded.strokes
        /\ db_objects' = loaded.objects
        /\ db_turns' = loaded.turns
        /\ db_audit_logs' = loaded.audit_logs
        /\ members' = loaded.members
        /\ room_member_index' = loaded.room_member_index
        /\ room_turn_index' = loaded.room_turn_index
        /\ lock' = None
        /\ tx' = [NoTx EXCEPT !.outcome = "loaded"]
        /\ UNCHANGED <<redis_vars, next_object_id, next_turn_id, cli, proc,
                       created_turns, delivered, processed, ops, redis_failures, ws,
                       es, tp, http, storage, persist_failures, moderation>>

\* A Database constructed with a storage path: the seeded store is what
\* _load_from_disk built from the file found there.
SnapshotInit ==
    /\ Seeded
    /\ storage = File(payload_of(Store))

SnapshotNext ==
    \/ \E body \in TransactionBodies : Transaction(body)
    \/ Restart

\* Session transactions on a Database that keeps a snapshot file, and
\* restarts of the process.
SnapshotSpec == SnapshotInit /\ [][SnapshotNext]_vars

(* ------------------------- TurnProcessor.stop -------------------------- *)
\* stop(): sets the flag and, the task being set, starts awaiting it.
Stop ==
    /\ tp.stop = "idle"
    /\ tp' = [tp EXCEPT !.stop_event = TRUE, !.stop = "awaiting",
                        !.busy_at_stop = (proc["p1"].pc \notin {"idle", "crashed"})]
    /\ UNCHANGED <<db_vars, lock, redis_vars, next_object_id, next_turn_id, cli, proc,
                   created_turns, delivered, processed, ops, redis_failures, ws, es,
                   http, snapshot_vars, moderation>>

\* _run: between two items the loop condition finds the flag set and the
\* coroutine returns.
RunExit ==
    /\ tp.task = "running"
    /\ tp.stop_event
    /\ proc["p1"].pc = "idle"
    /\ tp' = [tp EXCEPT !.task = "done"]
    /\ UNCHANGED <<db_vars, lock, redis_vars, next_object_id, next_turn_id, cli, proc,
                   created_turns, delivered, processed, ops, redis_failures, ws, es,
                   http, snapshot_vars, moderation>>

\* stop(): `await self._task` ends when the task has returned, or raises
\* the exception that ended _run.
StopReturn ==
    /\ tp.stop = "awaiting"
    /\ \/ /\ tp.task = "done"
          /\ tp' = [tp EXCEPT !.stop = "returned"]
       \/ /\ proc["p1"].pc = "crashed"
          /\ tp' = [tp EXCEPT !.task = "failed", !.stop = "raised"]
    /\ UNCHANGED <<db_vars, lock, redis_vars, next_object_id, next_turn_id, cli, proc,
                   created_turns, delivered, processed, ops, redis_failures, ws, es,
                   http, snapshot_vars, moderation>>

\* The one task of a TurnProcessor
ProcessorNext ==
    \/ Deliver("p1")
    \/ LoadTurnContext("p1")
    \/ Generate("p1")
    \/ MarkTurnCompleted("p1")
    \/ MarkTurnBlocked("p1")
    \/ Emit("p1")
    \/ RunExit

\* commit requests served one at a time
ClientNext ==
    \/ \E req \in CommitRequests : Request("c1", req)
    \/ CreateObject("c1")
    \/ EnqueueTurnEvent("c1")
    \/ BroadcastObjectEvent("c1")
    \/ Commit("c1")

\* The requests of CommitRequests and one that names an unknown room and
\* lists no stroke
RefusalRequests == CommitRequests \cup {Req("r9", << >>, NoText)}

RefusalNext ==
    \/ \E req \in RefusalRequests : Request("c1", req)
    \/ CreateObject("c1")
    \/ EnqueueTurnEvent("c1")
    \/ BroadcastObjectEvent("c1")
    \/ Commit("c1")

\* Commit requests alone, the refused ones in every combination of causes.
RefusalSpec == Init /\ [][RefusalNext]_vars

StopNext == ClientNext \/ ProcessorNext \/ Stop \/ StopReturn

\* Commit requests and one turn processor that is stopped at some moment.
StopSpec == Init /\ [][StopNext]_vars

(* ------------------------------ access control ------------------------ *)
UserRoles == {"player", "moderator", "parent"}

\* A bearer token: the subject and role of its payload, whether its
\* signature is the HMAC of its payload, and whether its exp has passed.
Token(sub, role, signed, expired) ==
    [sub |-> sub, role |-> role, signed |-> signed, expired |-> expired]

AuthenticatedSubject(user_id, role) == [ok |-> TRUE, user_id |-> user_id, role |-> role]
Unauthorized(detail) == [ok |-> FALSE, status |-> 401, detail |-> detail]

\* decode_token: the subject of the token, or the 401 it raises
decode_token(token) ==
    IF ~token.signed THEN Unauthorized("invalid_signature")
    ELSE IF token.expired THEN Unauthorized("token_expired")
    ELSE IF token.role \notin UserRoles THEN Unauthorized("invalid_subject")
    ELSE AuthenticatedSubject(token.sub, token.role)

\* tokens that _authenticate refuses: none, forged, expired, unknown role
RefusedTokens ==
    { NoToken,
      Token("u1", "player", FALSE, FALSE),
      Token("u1", "player", TRUE, TRUE),
      Token("u1", "admin", TRUE, FALSE) }

(* ------------------------- WebSocket room stream ----------------------- *)
WsRequest(room_id, user_id, role) ==
    [room_id |-> room_id, user_id |-> user_id, role |-> role]

\* a member, a player and a moderator who are not members, an unknown room
WsRequests ==
    { WsRequest("r1", "u1", "player"),
      WsRequest("r1", "u2", "player"),
      WsRequest("r1", "m1", "moderator"),
      WsRequest("r9", "u1", "player") }

\* room_events: the token was decoded and the socket accepted
WsAccept(req) ==
    /\ ws.pc = "idle"
    /\ ops < MaxOps
    /\ ops' = ops + 1
    /\ ws' = [IdleWs EXCEPT !.pc = "membership", !.room_id = req.room_id,
                            !.user_id = req.user_id, !.role = req.role]
    /\ UNCHANGED <<db_vars, lock, redis_vars, next_object_id, next_turn_id, cli,
                   proc, created_turns, delivered, processed, redis_failures, es>>
    /\ UNCHANGED <<tp, http, snapshot_vars, moderation>>

\* The transaction of room_events: get_room, then get_room_member.  When
\* a lookup refuses the connection the handler awaits websocket.close()
\* inside the transaction, so the lock is held until the close returns;
\* otherwise the body has no suspension point.
WsMembershipCheck ==
    /\ ws.pc = "membership"
    /\ LockFree
    /\ IF \/ ws.room_id \notin DOMAIN db_rooms
          \/ (<<ws.room_id, ws.user_id>> \notin db_members /\ ws.role = "player")
       THEN /\ lock' = "ws"
            /\ ws' = [ws EXCEPT !.pc = "closing"]
       ELSE /\ lock' = lock
            /\ ws' = [ws EXCEPT !.pc = "backlog"]
    /\ UNCHANGED <<db_vars, redis_vars, next_object_id, next_turn_id, cli, proc,
                   created_turns, delivered, processed, ops, redis_failures, es>>
    /\ UNCHANGED <<tp, http, snapshot_vars, moderation>>

\* websocket.close(1008) returned; the handler returns, the transaction
\* commits its empty session and releases the lock.
WsClose ==
    /\ ws.pc = "closing"
    /\ transaction_exit(DatabaseSession, FALSE, db_turns)
    /\ ws' = [ws EXCEPT !.pc = "closed"]
    /\ UNCHANGED <<db_rooms, redis_vars, next_object_id, next_turn_id, cli, proc,
                   created_turns, delivered, processed, ops, redis_failures, es>>
    /\ UNCHANGED <<tp, http, snapshot_vars, moderation>>

\* _authenticate: the token is missing or decode_token raises; the socket
\* is closed with 1008 and WebSocketDisconnect leaves room_events before
\* accept.  The connection has no subject.
WsRefuse(room_id, token) ==
    /\ ws.pc = "idle"
    /\ IF token = NoToken THEN TRUE ELSE ~decode_token(token).ok
    /\ ws' = [IdleWs EXCEPT !.pc = "closed", !.room_id = room_id]
    /\ UNCHANGED <<db_vars, lock, redis_vars, next_object_id, next_turn_id, cli,
                   proc, created_turns, delivered, processed, ops, redis_failures, es>>
    /\ UNCHANGED <<tp, http, snapshot_vars, moderation>>

\* the connections tried when the event store is exercised on its own:
\* those above and a parent who is not a member
WsGatewayRequests == WsRequests \cup {WsRequest("r1", "g1", "parent")}

WsNext ==
    \/ \E req \in WsRequests : WsAccept(req)
    \/ WsMembershipCheck
    \/ WsClose

\* redis.list_timeline_events(cursor=cursor, limit=50)
BacklogLimit == 50

\* The backlog of room_events: the events of the room are sent in order
\* and the cursor moves to the last one sent.
WsBacklog ==
    /\ ws.pc = "backlog"
    /\ LET backlog == list_timeline(ws.cursor, BacklogLimit)
           mine == SelectSeq(backlog, LAMBDA event : event.roomId = ws.room_id)
       IN  ws' = [ws EXCEPT !.pc = "streaming",
                            !.cursor = IF mine # << >> THEN LastOf(mine).cursor ELSE @,
                            !.sent = @ \o mine]
    /\ UNCHANGED <<db_vars, lock, redis_vars, next_object_id, next_turn_id, cli,
                   proc, created_turns, delivered, processed, ops, redis_failures, es>>
    /\ UNCHANGED <<tp, http, snapshot_vars, moderation>>

\* room_events as it would be if the tail loop did not test roomId
WsNextEvent_without_room_filter ==
    /\ ws.pc = "streaming"
    /\ next_timeline_event(ws.cursor) # NoEvent
    /\ LET event == next_timeline_event(ws.cursor)
       IN  ws' = [ws EXCEPT !.cursor = event.cursor,
                            !.sent = Append(@, event)]
    /\ UNCHANGED <<db_vars, lock, redis_vars, next_object_id, next_turn_id, cli,
                   proc, created_turns, delivered, processed, ops, redis_failures, es>>
    /\ UNCHANGED <<tp, http, snapshot_vars, moderation>>

\* One turn of the `while True` loop of room_events in which
\* next_timeline_event returned an event (otherwise the loop sleeps): the
\* cursor moves to it, and it is sent when it belongs to the room.
WsNextEvent ==
    /\ ws.pc = "streaming"
    /\ next_timeline_event(ws.cursor) # NoEvent
    /\ LET event == next_timeline_event(ws.cursor)
       IN  ws' = [ws EXCEPT !.cursor = event.cursor,
                            !.sent = IF event.roomId = ws.room_id
                                     THEN Append(@, event) ELSE @]
    /\ UNCHANGED <<db_vars, lock, redis_vars, next_object_id, next_turn_id, cli,
                   proc, created_turns, delivered, processed, ops, redis_failures, es>>
    /\ UNCHANGED <<tp, http, snapshot_vars, moderation>>

(* ----------------------- the event store on its own -------------------- *)
\* Events published on ws:events: a turn event of the subscriber's room or
\* of another room.
StreamPayloads ==
    { [topic |-> "turn", roomId |-> r,
       payload |-> [turnId |-> SeedTurnId, status |-> "blocked"]] : r \in Rooms }

OtherRoomEvents == SelectSeq(timeline, LAMBDA event : event.roomId # "r1")

\* enqueue_json(WS_EVENT_STREAM, payload)
EnqueueStream(payload) ==
    /\ Len(timeline) < MaxTimeline
    /\ payload.roomId = "r1" \/ Len(OtherRoomEvents) < MaxOtherRoomEvents
    /\ enqueue_stream(payload)
    /\ UNCHANGED <<db_vars, lock, next_object_id, next_turn_id, cli, proc,
                   created_turns, delivered, processed, ops, redis_failures, ws, es>>
    /\ UNCHANGED <<tp, http, snapshot_vars, moderation>>

\* enqueue_json(TURN_QUEUE_KEY, payload) with the event of a new turn
EnqueueQueue ==
    LET item == [turn_id |-> next_turn_id, room_id |-> "r1",
                 object_id |-> next_object_id, sequence |-> next_turn_id]
    IN  /\ Len(es.pushed) < MaxPushes
        /\ enqueue_queue(item)
        /\ es' = [es EXCEPT !.pushed = Append(@, item)]
        /\ next_turn_id' = next_turn_id + 1
        /\ next_object_id' = next_object_id + 1
        /\ UNCHANGED <<db_vars, lock, cli, proc, created_turns, delivered,
                       processed, ops, redis_failures, ws>>
        /\ UNCHANGED <<tp, http, snapshot_vars, moderation>>

\* pop_event(TURN_QUEUE_KEY), on an empty queue too
PopQueue ==
    /\ es.pops < MaxPops
    /\ queues' = pop_queue(queues).items
    /\ es' = [es EXCEPT !.pops = @ + 1,
                        !.last = pop_queue(queues).result,
                        !.popped = IF pop_queue(queues).result = NoEvent THEN @
                                   ELSE Append(@, pop_queue(queues).result)]
    /\ UNCHANGED <<db_vars, lock, streams, sequences, timeline, timeline_seq,
                   next_object_id, next_turn_id, cli, proc, created_turns,
                   delivered, processed, ops, redis_failures, ws>>
    /\ UNCHANGED <<tp, http, snapshot_vars, moderation>>

EventStoreNext ==
    \/ \E payload \in StreamPayloads : EnqueueStream(payload)
    \/ EnqueueQueue
    \/ PopQueue
    \/ \E req \in WsGatewayRequests : WsAccept(req)
    \/ \E token \in RefusedTokens : WsRefuse("r1", token)
    \/ WsMembershipCheck
    \/ WsClose
    \/ WsBacklog
    \/ WsNextEvent

(* ----------------------- GET /internal/events/next ---------------------- *)
\* settings.realtime_service_key: the key the realtime gateway presents
realtime_service_key == <<"dev-gateway-key">>

ServiceKeys == {NoKey, realtime_service_key, <<"wrong-key">>}

GatewayTokens ==
    { NoToken,
      Token("g1", "moderator", TRUE, FALSE),
      Token("g1", "parent", TRUE, FALSE),
      Token("u1", "player", TRUE, FALSE),
      Token("g1", "moderator", TRUE, TRUE) }

\* values of the limit query parameter (1 is its default)
Limits == {1, 2}

\* _optional_subject
optional_subject(token) == IF token = NoToken THEN NoToken ELSE decode_token(token)

\* What the route answers before it reads the timeline: the refusal, or
\* status 0 when the request is authorised.  A token that decode_token
\* rejects fails the dependency with 401 before the route body runs.
authorise(subject, service_key) ==
    IF subject # NoToken /\ ~subject.ok
    THEN [status |-> 401, detail |-> subject.detail]
    ELSE IF subject # NoToken /\ subject.role \notin {"moderator", "parent"}
    THEN [status |-> 403, detail |-> "insufficient_role"]
    ELSE IF service_key # NoKey /\ service_key # realtime_service_key
    THEN [status |-> 401, detail |-> "invalid_service_key"]
    ELSE IF subject = NoToken /\ service_key = NoKey
    THEN [status |-> 401, detail |-> "missing_credentials"]
    ELSE [status |-> 0, detail |-> "authorised"]

\* get_next_event, called with the poller's cursor: the poller takes the
\* cursor of a 200 response as its next cursor.
GetNextEvent(token, service_key, limit) ==
    LET refusal == authorise(optional_subject(token), service_key)
        events == list_timeline(http.cursor, limit)
    IN  /\ http' =
              IF refusal.status # 0
              THEN [http EXCEPT !.status = refusal.status, !.detail = refusal.detail,
                                !.read = FALSE, !.token = token,
                                !.service_key = service_key, !.limit = limit,
                                !.events = << >>]
              ELSE IF events = << >>
              THEN [http EXCEPT !.status = 204, !.detail = "no_content",
                                !.read = TRUE, !.token = token,
                                !.service_key = service_key, !.limit = limit,
                                !.events = << >>]
              ELSE [http EXCEPT !.status = 200, !.detail = "ok",
                                !.read = TRUE, !.token = token,
                                !.service_key = service_key, !.limit = limit,
                                !.events = events,
                                !.cursor = LastOf(events).cursor,
                                !.received = @ \o events]
        /\ UNCHANGED <<db_vars, lock, redis_vars, next_object_id, next_turn_id, cli,
                       proc, created_turns, delivered, processed, ops,
                       redis_failures, ws, es, tp, snapshot_vars, moderation>>

GatewayNext ==
    \/ \E payload \in StreamPayloads : EnqueueStream(payload)
    \/ \E token \in GatewayTokens, service_key \in ServiceKeys, limit \in Limits :
          GetNextEvent(token, service_key, limit)

\* The realtime gateway polling the timeline while publishers append to it.
GatewaySpec == Init /\ [][GatewayNext]_vars

\* The event store driven directly by publishers, one queue consumer and
\* one WebSocket subscriber.
EventStoreSpec == Init /\ [][EventStoreNext]_vars

(* ------------------- RedisWrapper over several keys -------------------- *)
\* Keys are strings, modelled as their characters.
TURN_QUEUE_KEY == <<"t", "u", "r", "n", ":", "e", "v", "e", "n", "t", "s">>
WS_EVENT_STREAM == <<"w", "s", ":", "e", "v", "e", "n", "t", "s">>

\* "ws:object-events", and "turns", which does not start with "turn:"
Keys ==
    { TURN_QUEUE_KEY, WS_EVENT_STREAM,
      <<"w", "s", ":", "o", "b", "j", "e", "c", "t", "-", "e", "v", "e", "n", "t", "s">>,
      <<"t", "u", "r", "n", "s">> }

\* str.startswith
startswith(key, prefix) ==
    Len(key) >= Len(prefix) /\ SubSeq(key, 1, Len(prefix)) = prefix

\* key.startswith("turn:")
is_queue_key(key) == startswith(key, <<"t", "u", "r", "n", ":">>)

\* enqueue_stream as it would be with one sequence counter for all streams
timeline_event_with_global_sequence(stream, payload) ==
    [topic |-> payload.topic, roomId |-> payload.roomId, payload |-> payload.payload,
     sequence |-> timeline_seq + 1, stream |-> stream,
     cursor |-> str(timeline_seq + 1)]

\* What InMemoryEventStore.enqueue_stream returns: the payload with the
\* stream's next sequence number and the timeline's next cursor.
timeline_event(stream, payload) ==
    [topic |-> payload.topic, roomId |-> payload.roomId, payload |-> payload.payload,
     sequence |-> sequences[stream] + 1, stream |-> stream,
     cursor |-> str(timeline_seq + 1)]

\* The copy kept in self._streams[stream]: the event without its cursor
stream_event(event) ==
    [topic |-> event.topic, roomId |-> event.roomId, payload |-> event.payload,
     sequence |-> event.sequence, stream |-> event.stream]

\* The calls made so far (history): appended, the events returned by
\* enqueue_stream per key; pushed, the payloads given to enqueue_queue per
\* key; result, what the last reading call returned.
NoCalls ==
    [appended |-> [k \in Keys |-> << >>], pushed |-> [k \in Keys |-> << >>],
     pops |-> 0, result |-> << >>]

\* A fresh InMemoryEventStore: the defaultdicts yield [] and 0 for every key.
WrapperInit ==
    /\ SeededStore
    /\ storage = NoStorage
    /\ queues = [k \in Keys |-> << >>]
    /\ streams = [k \in Keys |-> << >>]
    /\ sequences = [k \in Keys |-> 0]
    /\ timeline = << >>
    /\ timeline_seq = 0
    /\ es = NoCalls
    /\ moderation = NoModeration

Enqueued == { <<k, i>> : k \in Keys, i \in 1..MaxEnqueues }
Appends == { c \in Enqueued : c[2] <= Len(es.appended[c[1]]) }
Pushes == { c \in Enqueued : c[2] <= Len(es.pushed[c[1]]) }

\* The payload of every call: a turn event of room r1
WrapperPayload ==
    [topic |-> "turn", roomId |-> "r1",
     payload |-> [turnId |-> SeedTurnId, status |-> "blocked"]]

\* RedisWrapper.enqueue_json(key, payload)
EnqueueJson(key, payload) ==
    /\ Cardinality(Appends) + Cardinality(Pushes) < MaxEnqueues
    /\ IF is_queue_key(key)
       THEN /\ queues' = [queues EXCEPT ![key] = Append(@, payload)]
            /\ es' = [es EXCEPT !.pushed[key] = Append(@, payload)]
            /\ UNCHANGED <<streams, sequences, timeline, timeline_seq>>
       ELSE LET event == timeline_event(key, payload)
            IN  /\ sequences' = [sequences EXCEPT ![key] = @ + 1]
                /\ streams' = [streams EXCEPT ![key] = Append(@, stream_event(event))]
                /\ timeline_seq' = timeline_seq + 1
                /\ timeline' = Append(timeline, event)
                /\ es' = [es EXCEPT !.appended[key] = Append(@, event)]
                /\ UNCHANGED queues
    /\ UNCHANGED <<db_vars, lock, next_object_id, next_turn_id, cli, proc,
                   created_turns, delivered, processed, ops, redis_failures, ws>>
    /\ UNCHANGED <<tp, http, snapshot_vars, moderation>>

\* RedisWrapper.list_events(key)
list_events(key) == IF is_queue_key(key) THEN queues[key] ELSE streams[key]

\* RedisWrapper.pop_event(key): a queue key pops the queue; a stream key
\* returns the stream's first event and, with the in-memory store, removes
\* it from the stream.
pop_event(key) ==
    IF is_queue_key(key)
    THEN [result |-> pop_queue(queues[key]).result,
          queues |-> [queues EXCEPT ![key] = pop_queue(queues[key]).items],
          streams |-> streams]
    ELSE IF streams[key] = << >>
    THEN [result |-> NoEvent, queues |-> queues, streams |-> streams]
    ELSE [result |-> Head(streams[key]), queues |-> queues,
          streams |-> [streams EXCEPT ![key] = Tail(@)]]

PopEvent(key) ==
    /\ es.pops < MaxPops
    /\ queues' = pop_event(key).queues
    /\ streams' = pop_event(key).streams
    /\ es' = [es EXCEPT !.pops = @ + 1, !.result = <<pop_event(key).result>>]
    /\ UNCHANGED <<sequences, timeline, timeline_seq>>
    /\ UNCHANGED <<db_vars, lock, next_object_id, next_turn_id, cli, proc,
                   created_turns, delivered, processed, ops, redis_failures, ws>>
    /\ UNCHANGED <<tp, http, snapshot_vars, moderation>>

\* RedisWrapper.list_events(key); like every call that only reads, its
\* result is kept and the store is not touched.
ListEvents(key) ==
    /\ es' = [es EXCEPT !.result = list_events(key)]
    /\ UNCHANGED <<db_vars, lock, redis_vars, next_object_id, next_turn_id, cli, proc,
                   created_turns, delivered, processed, ops, redis_failures, ws>>
    /\ UNCHANGED <<tp, http, snapshot_vars, moderation>>

\* The cursors a caller may hold: none, or one handed out by the store
Cursors == {NoCursor} \cup { str(n) : n \in 1..MaxEnqueues }

\* RedisWrapper.next_timeline_event(cursor)
NextTimelineEvent(cursor) ==
    /\ es' = [es EXCEPT !.result = <<next_timeline_event(cursor)>>]
    /\ UNCHANGED <<db_vars, lock, redis_vars, next_object_id, next_turn_id, cli, proc,
                   created_turns, delivered, processed, ops, redis_failures, ws>>
    /\ UNCHANGED <<tp, http, snapshot_vars, moderation>>

\* RedisWrapper.list_timeline_events(cursor, limit)
ListTimelineEvents(cursor, limit) ==
    /\ es' = [es EXCEPT !.result = list_timeline(cursor, limit)]
    /\ UNCHANGED <<db_vars, lock, redis_vars, next_object_id, next_turn_id, cli, proc,
                   created_turns, delivered, processed, ops, redis_failures, ws>>
    /\ UNCHANGED <<tp, http, snapshot_vars, moderation>>

WrapperNext ==
    \/ \E key \in Keys : EnqueueJson(key, WrapperPayload)
    \/ \E key \in Keys : PopEvent(key)
    \/ \E key \in Keys : ListEvents(key)
    \/ \E cursor \in Cursors : NextTimelineEvent(cursor)
    \/ \E cursor \in Cursors, limit \in {NoLimit, 1} : ListTimelineEvents(cursor, limit)

\* The wrapper's operations called in any order with any key.
WrapperSpec == WrapperInit /\ [][WrapperNext]_vars

(* ----------------------- _run_safety_checks alone ---------------------- *)
\* Patches of the agent and objects as _run_safety_checks may be given:
\* instructions absent or blank (no word), clean, or with banned words;
\* no label, clean and banned labels, a label that is the empty string.
PatchInstructions ==
    { NoText, <<"draw", "tower">>, <<"add", "spooky", "blood">>, <<"scary", "blood">> }

PatchLabels ==
    { << >>, <<NoText>>, <<<<"castle">>>>, <<<<"weapon">>>>,
      <<<<"castle">>, <<"blood">>>>, <<<<"a", "weapon">>>> }

ObjectLabels == { NoText, <<"castle">>, <<"weapon">> }

SafetyInit ==
    /\ SeededStore
    /\ SeededEventStore
    /\ storage = NoStorage
    /\ \E instructions \in PatchInstructions, labels \in PatchLabels,
          label \in ObjectLabels :
          moderation = [fn |-> "called",
                        canvas_object |-> [label |-> label],
                        patch |-> Patch(instructions, labels)]

\* safety = self._run_safety_checks(object_snapshot, patch)
RunSafetyChecks ==
    /\ moderation.fn = "called"
    /\ moderation' = [fn |-> "_run_safety_checks",
                      canvas_object |-> moderation.canvas_object,
                      patch |-> moderation.patch,
                      results |-> run_safety_checks(moderation.canvas_object,
                                                    moderation.patch)]
    /\ UNCHANGED <<db_vars, lock, redis_vars, next_object_id, next_turn_id, cli, proc,
                   created_turns, delivered, processed, ops, redis_failures, ws, es,
                   tp, http, snapshot_vars>>

\* safety.to_payload(), as both transitions call it
ToPayload ==
    /\ moderation.fn = "_run_safety_checks"
    /\ moderation' = [fn |-> "to_payload",
                      canvas_object |-> moderation.canvas_object,
                      patch |-> moderation.patch,
                      results |-> moderation.results,
                      payload |-> to_payload(moderation.results)]
    /\ UNCHANGED <<db_vars, lock, redis_vars, next_object_id, next_turn_id, cli, proc,
                   created_turns, delivered, processed, ops, redis_failures, ws, es,
                   tp, http, snapshot_vars>>

SafetyNext == RunSafetyChecks \/ ToPayload

\* _run_safety_checks and SafetySummary applied to every patch and object
\* of the sets above.
SafetySpec == SafetyInit /\ [][SafetyNext]_vars

(* ------------------- content_safety: ModerationEngine ------------------ *)
\* Strings are sequences of characters here, so that a keyword inside a
\* longer word is told apart from a keyword that is the whole string.
\* SafetySettings.banned_keywords (default_factory)
settings_banned_keywords ==
    << <<"v", "i", "o", "l", "e", "n", "c", "e">>,
       <<"b", "l", "o", "o", "d">>,
       <<"w", "e", "a", "p", "o", "n">>,
       <<"s", "c", "a", "r", "y">>,
       <<"a", "l", "c", "o", "h", "o", "l">> >>

\* str.lower on the capitals that occur in the inputs below
lower_case == ("A" :> "a") @@ ("B" :> "b") @@ ("D" :> "d") @@ ("L" :> "l") @@ ("O" :> "o") @@ ("W" :> "w")
lower(text) ==
    [i \in 1..Len(text) |-> IF text[i] \in DOMAIN lower_case THEN lower_case[text[i]]
                            ELSE text[i]]

\* `kw in text` on two strings: kw is a substring of text
in_str(kw, text) ==
    \E i \in 1..(Len(text) + 1) :
        i + Len(kw) - 1 <= Len(text) /\ SubSeq(text, i, i + Len(kw) - 1) = kw

\* `kw in normalized` on a list of strings: kw equals one of its items
in_list(kw, items) == \E i \in 1..Len(items) : items[i] = kw

\* ModerationEngine.evaluate_text of content_safety
ModerationEngine_evaluate_text(text) ==
    LET triggers == SelectSeq(settings_banned_keywords,
                              LAMBDA kw : in_str(kw, lower(text)))
    IN  [category |-> "text", passed |-> (triggers = << >>), reasons |-> triggers]

\* ModerationEngine.evaluate_labels of content_safety
ModerationEngine_evaluate_labels(labels) ==
    LET normalized == [i \in 1..Len(labels) |-> lower(labels[i])]
        triggers == SelectSeq(settings_banned_keywords,
                              LAMBDA kw : in_list(kw, normalized))
    IN  [category |-> "image", passed |-> (triggers = << >>), reasons |-> triggers]

\* The text of the repository's test, keywords in capitals, inside a longer
\* word and cut short, clean and empty texts
ModerationTexts ==
    { <<"A", " ", "s", "c", "a", "r", "y", " ", "d", "r", "a", "g", "o", "n", " ", "w", "i", "t", "h", " ", "b", "l", "o", "o", "d">>,
      <<"B", "L", "O", "O", "D">>,
      <<"B", "l", "o", "o", "d", "y">>,
      <<"h", "a", "p", "p", "y">>,
      << >>,
      <<"s", "c", "a", "r">>,
      <<"a", " ", "W", "e", "a", "p", "o", "n">> }

\* The labels of the repository's test, a keyword in capitals, keywords
\* inside a longer label, no label, two keywords against their configured
\* order
ModerationLabels ==
    { <<<<"h", "a", "p", "p", "y">>, <<"c", "l", "o", "u", "d">>>>,
      <<<<"W", "e", "a", "p", "o", "n">>>>,
      <<<<"b", "l", "o", "o", "d", "y">>>>,
      << >>,
      <<<<"s", "c", "a", "r", "y">>, <<"b", "l", "o", "o", "d">>>>,
      <<<<"a", " ", "w", "e", "a", "p", "o", "n">>, <<"c", "l", "o", "u", "d">>>> }

\* the function has not been called
NotCalled == [category |-> None]

ModerationInit ==
    /\ SeededStore
    /\ SeededEventStore
    /\ storage = NoStorage
    /\ \E text \in ModerationTexts, labels \in ModerationLabels :
          moderation = [fn |-> "ModerationEngine", text |-> text, labels |-> labels,
                        text_result |-> NotCalled, labels_result |-> NotCalled]

\* engine.evaluate_text(text)
EvaluateText ==
    /\ moderation.text_result = NotCalled
    /\ moderation' = [moderation EXCEPT
                        !.text_result = ModerationEngine_evaluate_text(moderation.text)]
    /\ UNCHANGED <<db_vars, lock, redis_vars, next_object_id, next_turn_id, cli, proc,
                   created_turns, delivered, processed, ops, redis_failures, ws, es,
                   tp, http, snapshot_vars>>

\* engine.evaluate_labels(labels)
EvaluateLabels ==
    /\ moderation.labels_result = NotCalled
    /\ moderation' = [moderation EXCEPT
                        !.labels_result = ModerationEngine_evaluate_labels(moderation.labels)]
    /\ UNCHANGED <<db_vars, lock, redis_vars, next_object_id, next_turn_id, cli, proc,
                   created_turns, delivered, processed, ops, redis_failures, ws, es,
                   tp, http, snapshot_vars>>

ModerationNext == EvaluateText \/ EvaluateLabels

\* The two functions of the content-safety engine applied to the inputs above.
ModerationSpec == ModerationInit /\ [][ModerationNext]_vars

(* -------------------- POST /rooms, /join and /objects ------------------- *)
\* The subjects of the requests: user u1 in each role
Subjects == { AuthenticatedSubject("u1", role) : role \in UserRoles }

\* `subject.role == UserRole.PLAYER and payload.<id> != subject.user_id` as
\* it would be if players were not restricted
acts_for_other_user_unrestricted(subject, user_id) == FALSE

\* `subject.role == UserRole.PLAYER and payload.<id> != subject.user_id`
acts_for_other_user(subject, user_id) ==
    subject.role = "player" /\ user_id # subject.user_id

\* uuid4() of the n-th request's Room
new_room_id(n) == <<"room", n>>

\* What an endpoint gave its caller: the status and detail of the response,
\* the snapshot it carries, and whether the service function was entered.
NoSnapshot == [room |-> None]
Response(endpoint, subject, room_id, user_id, code, detail, entered, snapshot) ==
    [endpoint |-> endpoint, subject |-> subject, room_id |-> room_id,
     user_id |-> user_id, status |-> code, detail |-> detail, entered |-> entered,
     snapshot |-> snapshot, request |-> ops + 1]

RoomSession ==
    [pending_rooms |-> << >>, pending_members |-> << >>, pending_audit_logs |-> << >>]

\* rooms.py calls `session.save_room(room)` and
\* `session.save_room_member(member)` without await: the coroutine objects
\* are created and dropped, their bodies never run.
save_room_not_awaited(session, room) == session
save_room_member_not_awaited(session, member) == session

\* create_room: the session it leaves and the snapshot it returns
create_room(room_id, host_id, joined_at) ==
    LET room == [id |-> room_id, turn_seq |-> 0]
        member == RoomMember(room_id, host_id, "host", joined_at)
        s1 == save_room_not_awaited(RoomSession, room)
        s2 == save_room_member_not_awaited(s1, member)
        s3 == [s2 EXCEPT !.pending_audit_logs =
                            Append(@, AuditLog(room_id, NoId, "room.created",
                                               [room_id |-> room_id]))]
    IN  [session |-> s3,
         snapshot |-> [room |-> room, member |-> member, members |-> <<member>>]]

\* DatabaseSession.commit of a rooms session
rooms_commit(session) ==
    LET store == commit_members([members |-> members,
                                 room_member_index |-> room_member_index],
                                session.pending_members)
    IN  /\ db_rooms' = PutAll(db_rooms, session.pending_rooms)
        /\ members' = store.members
        /\ room_member_index' = store.room_member_index
        /\ db_audit_logs' = db_audit_logs \o session.pending_audit_logs

\* POST /rooms
CreateRoomEndpoint(subject, host_id) ==
    /\ LockFree
    /\ ops < MaxOps
    /\ ops' = ops + 1
    /\ IF acts_for_other_user(subject, host_id)
       THEN /\ http' = Response("create_room", subject, None, host_id, 403,
                                "cannot_create_for_other_user", FALSE, NoSnapshot)
            /\ UNCHANGED <<db_rooms, members, room_member_index, db_audit_logs>>
       ELSE LET created == create_room(new_room_id(ops + 1), host_id, Len(members) + 1)
            IN  /\ rooms_commit(created.session)
                /\ http' = Response("create_room", subject, None, host_id, 201,
                                    "created", TRUE, created.snapshot)
    /\ UNCHANGED <<db_strokes, db_objects, db_turns, room_turn_index, lock, redis_vars,
                   next_object_id, next_turn_id, cli, proc, created_turns, delivered,
                   processed, redis_failures, ws, es, tp, storage, persist_failures,
                   tx, moderation>>

\* join_room: `room = session.get_room(room_id)` and
\* `member = session.get_room_member(room_id, user_id)` are not awaited, so
\* no LookupError is raised, room and member are coroutine objects and
\* is_new_member is False; `session.list_room_members(room.id)` then raises
\* AttributeError, a coroutine having no attribute id.
join_room(room_id, user_id) ==
    [raised |-> "AttributeError", session |-> RoomSession, snapshot |-> NoSnapshot]

\* POST /rooms/{room_id}/join; an exception of the handler other than
\* HTTPException is answered 500 and leaves the transaction without commit.
JoinRoomEndpoint(subject, room_id, user_id) ==
    /\ LockFree
    /\ ops < MaxOps
    /\ ops' = ops + 1
    /\ IF acts_for_other_user(subject, user_id)
       THEN /\ http' = Response("join_room", subject, room_id, user_id, 403,
                                "cannot_join_for_other_user", FALSE, NoSnapshot)
            /\ UNCHANGED <<db_rooms, members, room_member_index, db_audit_logs>>
       ELSE LET joined == join_room(room_id, user_id)
            IN  IF joined.raised # None
                THEN /\ http' = Response("join_room", subject, room_id, user_id, 500,
                                         joined.raised, TRUE, NoSnapshot)
                     /\ UNCHANGED <<db_rooms, members, room_member_index, db_audit_logs>>
                ELSE /\ rooms_commit(joined.session)
                     /\ http' = Response("join_room", subject, room_id, user_id, 200,
                                         "joined", TRUE, joined.snapshot)
    /\ UNCHANGED <<db_strokes, db_objects, db_turns, room_turn_index, lock, redis_vars,
                   next_object_id, next_turn_id, cli, proc, created_turns, delivered,
                   processed, redis_failures, ws, es, tp, storage, persist_failures,
                   tx, moderation>>

\* POST /rooms/{room_id}/objects: the route's test of the owner, then
\* create_object (the steps of the commit request).
CommitObjectEndpoint(subject, owner_id, req) ==
    /\ LockFree
    /\ cli["c1"].pc = "idle"
    /\ ops < MaxOps
    /\ ops' = ops + 1
    /\ IF acts_for_other_user(subject, owner_id)
       THEN /\ http' = Response("commit_object", subject, req.room_id, owner_id, 403,
                                "cannot_commit_for_other_user", FALSE, NoSnapshot)
            /\ UNCHANGED cli
       ELSE /\ http' = Response("commit_object", subject, req.room_id, owner_id, 0,
                                "pending", TRUE, NoSnapshot)
            /\ cli' = [cli EXCEPT !["c1"] = [IdleClient EXCEPT !.pc = "waiting",
                                                               !.req = req]]
    /\ UNCHANGED <<ws, es, db_vars, lock, redis_vars, next_object_id, next_turn_id, proc,
                   created_turns, delivered, processed, redis_failures>>
    /\ UNCHANGED <<tp, snapshot_vars, moderation>>

RoomsNext ==
    \/ \E subject \in Subjects, host_id \in UserIds : CreateRoomEndpoint(subject, host_id)
    \/ \E subject \in Subjects, room_id \in {"r1", "r9"}, user_id \in UserIds :
          JoinRoomEndpoint(subject, room_id, user_id)
    \/ \E subject \in Subjects, owner_id \in UserIds :
          CommitObjectEndpoint(subject, owner_id, Req("r1", <<"s1">>, NoText))
    \/ CreateObject("c1")
    \/ EnqueueTurnEvent("c1")
    \/ BroadcastObjectEvent("c1")
    \/ Commit("c1")

\* The three endpoints of the rooms router called by players, moderators
\* and parents for themselves and for another user.
RoomsSpec == Init /\ [][RoomsNext]_vars

(* --------------------- _process_event called directly ------------------ *)
\* Payloads that name the seeded turn and object or ids that no turn and no
\* object of the store carries.
ProcessEvents ==
    { [turn_id |-> t, room_id |-> "r1", object_id |-> o, sequence |-> 1] :
        t \in {SeedTurnId, SeedTurnId + 1}, o \in {SeedObjectId, SeedObjectId + 1} }

\* `await processor._process_event(event)`
ProcessEvent(event) ==
    /\ start("p1", event)
    /\ UNCHANGED <<ws, es, db_vars, lock, redis_vars, next_object_id, next_turn_id, cli,
                   created_turns, delivered, processed, redis_failures>>
    /\ UNCHANGED <<tp, http, snapshot_vars, moderation>>

ProcessEventNext ==
    \/ \E event \in ProcessEvents : ProcessEvent(event)
    \/ LoadTurnContext("p1")
    \/ Generate("p1")
    \/ MarkTurnCompleted("p1")
    \/ MarkTurnBlocked("p1")
    \/ Emit("p1")

\* _process_event called with any payload, one call after the other.
ProcessEventSpec == Init /\ [][ProcessEventNext]_vars

Next == CommitNext \/ WorkerNext \/ WsNext

Spec == Init /\ [][Next]_vars

\* The event loop runs every task that can run: the _run task pops the
\* queue and carries each _process_event through, a request handler that
\* has entered its transaction reaches its end, and the AI call returns,
\* fails or times out (Generate).
FairSpec ==
    /\ Spec
    /\ \A p \in Workers :
          WF_vars(Deliver(p) \/ LoadTurnContext(p) \/ Generate(p)
                    \/ MarkTurnCompleted(p) \/ MarkTurnBlocked(p) \/ Emit(p))
    /\ \A c \in Clients :
          WF_vars(CreateObject(c) \/ EnqueueTurnEvent(c)
                    \/ BroadcastObjectEvent(c) \/ Commit(c))
    /\ WF_vars(WsMembershipCheck \/ WsClose)

(* ======================================================================= *)
(*                               Properties                                *)
(* ======================================================================= *)
Terminal(t) == db_turns[t].status # "waiting_for_ai"

StepOf(p) == proc'[p] # proc[p]

\* C1: a turn that has left waiting_for_ai never again changes its status,
\* current_actor, safety_status or ai_patch_uri, also when its event is
\* delivered twice and the two runs overlap at the AI call.
C1_TurnTransitionsAtMostOnce ==
    [][\A t \in DOMAIN db_turns :
          Terminal(t) =>
              /\ db_turns'[t].status = db_turns[t].status
              /\ db_turns'[t].current_actor = db_turns[t].current_actor
              /\ db_turns'[t].safety_status = db_turns[t].safety_status
              /\ db_turns'[t].ai_patch_uri = db_turns[t].ai_patch_uri]_vars

\* C2: _mark_turn_completed and _mark_turn_blocked change neither the turn,
\* nor the audit logs, nor the timeline when the turn they read again in
\* their transaction is no longer waiting_for_ai.
C2_MarkIsNoOpUnlessWaiting ==
    [][\A p \in Workers :
          /\ ( /\ proc[p].pc \in {"mark_turn_completed", "mark_turn_blocked"}
               /\ StepOf(p)
               /\ proc[p].event.turn_id \in DOMAIN db_turns
               /\ Terminal(proc[p].event.turn_id) )
             => UNCHANGED <<db_turns, db_audit_logs, timeline>>
          /\ ( /\ proc[p].pc \in {"emit_completed", "emit_blocked"}
               /\ StepOf(p)
               /\ ~proc[p].reread_waiting )
             => UNCHANGED <<db_turns, db_audit_logs, timeline>>]_vars

\* C3: a run of _process_event that begins after a run on the same event
\* has finished leaves the turns, the audit logs, the stream and the
\* timeline as that first run left them, whatever the agent would answer.
C3_SecondRunChangesNothing ==
    [][\A p \in Workers :
          (proc[p].rerun /\ proc[p].pc # "idle" /\ StepOf(p))
              => UNCHANGED <<db_turns, db_audit_logs, streams, timeline>>]_vars

\* C3 witness: a second run on the seeded turn has finished after a first
\* run took the turn to a terminal status and emitted its event.
C3_Witness ==
    \E p \in Workers :
        /\ proc[p].pc = "idle"
        /\ proc[p].rerun
        /\ proc[p].event.turn_id = SeedTurnId
        /\ Terminal(SeedTurnId)
        /\ Len(timeline) = 1

NoTransaction == lock = None

RoomTurns(r) == {t \in DOMAIN db_turns : db_turns[t].room_id = r}

\* C4: whenever no transaction is in progress, each room's stored turns
\* number exactly room.turn_seq and their sequences are exactly 1..turn_seq.
C4_TurnsMatchTurnSeq ==
    NoTransaction =>
        \A r \in DOMAIN db_rooms :
            /\ Cardinality(RoomTurns(r)) = db_rooms[r].turn_seq
            /\ {db_turns[t].sequence : t \in RoomTurns(r)} = 1..db_rooms[r].turn_seq

RoomCreated(r) == SelectSeq(created_turns, LAMBDA ct : ct.turn.room_id = r)

InTransaction(c) == cli[c].pc \in {"enqueue_turn_event", "broadcast", "commit"}

\* C5: commits on one room are linearized by the store lock (at most one
\* request is inside its transaction, and it holds the lock) and the turns
\* they create receive consecutive sequence numbers in creation order, so
\* no number is skipped and none is given to two turns of the room.
C5_CreatedTurnsConsecutive ==
    /\ \A c, d \in Clients : (InTransaction(c) /\ InTransaction(d)) => c = d
    /\ \A c \in Clients : InTransaction(c) => lock = c
    /\ \A r \in Rooms :
          \A i \in 1..Len(RoomCreated(r)) :
              RoomCreated(r)[i].turn.sequence = SeedTurnSeq(r) + i

\* C5 witness: two requests on the same room, the second of which arrived
\* while the lock was held, have both created their turn.
C5_Witness ==
    \E i, j \in 1..Len(created_turns) :
        /\ i < j
        /\ created_turns[i].turn.room_id = created_turns[j].turn.room_id
        /\ created_turns[i].client # created_turns[j].client
        /\ created_turns[j].contended

\* C6: whenever no transaction is in progress, every stored object has
\* exactly one stored turn whose source_object_id is the object's id.
C6_EveryObjectHasOneTurn ==
    NoTransaction =>
        \A o \in DOMAIN db_objects :
            Cardinality({t \in DOMAIN db_turns : db_turns[t].source_object_id = o}) = 1

BodyStep(c) == cli[c].pc = "waiting" /\ cli'[c].pc # "waiting"

\* C7: a successful commit_object on a room whose turn_seq is n stores one
\* new committed object, sets object_id of every listed stroke, makes
\* turn_seq n+1, stores one new turn (sequence n+1, waiting_for_ai, actor
\* ai, source the object) retrievable by its id, adds exactly the audit logs
\* object.committed and turn.created, and pushes one turn:events item
\* carrying the turn's id, room, object and sequence.
C7_CommitObjectPostcondition ==
    [][\A c \in Clients :
          LET req == cli[c].req
              obj == cli[c].object
              turn == cli[c].turn
          IN
          /\ (cli[c].pc = "waiting" /\ cli'[c].pc = "enqueue_turn_event") =>
                /\ db_rooms'[req.room_id].turn_seq = db_rooms[req.room_id].turn_seq + 1
                /\ cli'[c].turn = Turn(cli'[c].turn.id, req.room_id,
                                       db_rooms[req.room_id].turn_seq + 1,
                                       cli'[c].object.id)
          /\ (cli[c].pc = "enqueue_turn_event" /\ cli'[c].pc = "broadcast") =>
                queues' = Append(queues, TurnEvent(turn))
          /\ (cli[c].pc = "commit" /\ cli'[c].pc = "idle") =>
                /\ DOMAIN db_objects' = DOMAIN db_objects \cup {obj.id}
                /\ obj.id \notin DOMAIN db_objects
                /\ db_objects'[obj.id].status = "committed"
                /\ \A i \in 1..Len(req.stroke_ids) :
                      db_strokes'[req.stroke_ids[i]].object_id = obj.id
                /\ db_rooms'[req.room_id].turn_seq = turn.sequence
                /\ DOMAIN db_turns' = DOMAIN db_turns \cup {turn.id}
                /\ turn.id \notin DOMAIN db_turns
                /\ db_turns'[turn.id] = turn
                /\ Len(db_audit_logs') = Len(db_audit_logs) + 2
                /\ SubSeq(db_audit_logs', 1, Len(db_audit_logs)) = db_audit_logs
                /\ db_audit_logs'[Len(db_audit_logs) + 1].event_type = "object.committed"
                /\ db_audit_logs'[Len(db_audit_logs) + 2].event_type = "turn.created"]_vars

HasAssignedStroke(req) ==
    \E i \in 1..Len(req.stroke_ids) :
        /\ req.stroke_ids[i] \in DOMAIN db_strokes
        /\ db_strokes[req.stroke_ids[i]].object_id # NoId

StrokeAssignmentKept ==
    \A s \in DOMAIN db_strokes :
        db_strokes[s].object_id # NoId => db_strokes'[s].object_id = db_strokes[s].object_id

RefusedWithoutChange(c, code) ==
    /\ cli'[c].pc = "idle"
    /\ cli'[c].result.status = code
    /\ UNCHANGED <<db_vars, redis_vars>>

\* C8 as stated: a stroke's object_id never changes once set, and every
\* commit whose stroke list contains an already-assigned stroke fails with
\* 409 and changes nothing.
C8_AsStated ==
    [][/\ StrokeAssignmentKept
       /\ \A c \in Clients :
             (BodyStep(c) /\ HasAssignedStroke(cli[c].req))
                 => RefusedWithoutChange(c, 409)]_vars

\* C8 amended: a stroke's object_id never changes once set, and a commit on
\* an existing room whose listed strokes all exist in that room and include
\* an already-assigned stroke fails with 409, listing the assigned strokes,
\* and changes no stroke, object, turn, room, audit log, stream or queue.
C8_AssignedStrokeConflict ==
    [][/\ StrokeAssignmentKept
       /\ \A c \in Clients :
             ( /\ BodyStep(c)
               /\ HasAssignedStroke(cli[c].req)
               /\ cli[c].req.room_id \in DOMAIN db_rooms
               /\ strokes_found(cli[c].req.room_id, cli[c].req.stroke_ids) )
                 => /\ RefusedWithoutChange(c, 409)
                    /\ Range(cli'[c].result.detail) =
                          {s \in Range(cli[c].req.stroke_ids) :
                               db_strokes[s].object_id # NoId}]_vars

\* C8 witness: a commit was refused with 409 because of stroke s1, which an
\* earlier commit of the same run had assigned to its object.
C8_Witness ==
    \E c \in Clients :
        /\ cli[c].pc = "idle"
        /\ cli[c].result.status = 409
        /\ "s1" \in Range(cli[c].result.detail)
        /\ db_strokes["s1"].object_id # NoId

ModerationRejects(req) ==
    /\ req.stroke_ids # << >>
    /\ req.room_id \in DOMAIN db_rooms
    /\ strokes_found(req.room_id, req.stroke_ids)
    /\ ~HasAssignedStroke(req)
    /\ req.label # NoText
    /\ \E kw \in Range(banned_keywords) : kw \in Range(req.label)

\* C9: a commit whose label the moderation rejects (the commit gets as far
\* as the moderation of its label, which finds a banned keyword) fails with
\* 422 carrying the keywords found, and leaves no object, no turn, no change
\* of a stroke's object_id, no change of turn_seq and no stream, timeline or
\* queue event.
C9_RejectedLabelRollsBack ==
    [][\A c \in Clients :
          (BodyStep(c) /\ ModerationRejects(cli[c].req)) =>
              /\ cli'[c].pc = "idle"
              /\ cli'[c].result.status = 422
              /\ Range(cli'[c].result.detail) =
                    {kw \in Range(banned_keywords) : kw \in Range(cli[c].req.label)}
              /\ UNCHANGED <<db_objects, db_turns, room_turn_index, db_strokes,
                             db_rooms, redis_vars>>]_vars

\* C9 witness: a commit labelled "a weapon" has been refused with 422 and
\* the reason weapon.
C9_Witness ==
    \E c \in Clients :
        /\ cli[c].pc = "idle"
        /\ cli[c].result.status = 422
        /\ cli[c].result.detail = <<"weapon">>

\* C10: when a transaction body fails before commit, the store reads
\* afterwards exactly as it did when the transaction began: rooms (turn_seq
\* included), strokes, objects, turns and audit logs.
C10_FailedBodyLeavesStoreAsBefore ==
    [][\A c \in Clients :
          /\ (BodyStep(c) /\ cli'[c].pc = "idle") => UNCHANGED db_vars
          /\ ( /\ cli[c].pc \in {"enqueue_turn_event", "broadcast"}
               /\ cli'[c].pc = "idle" )
                 => db_vars' = cli[c].before]_vars

LiveTransactions ==
    {c \in Clients : InTransaction(c)} \cup (IF ws.pc = "closing" THEN {"ws"} ELSE {})

WorkerTransactionStep(p) ==
    /\ proc[p].pc \in {"load", "mark_turn_completed", "mark_turn_blocked"}
    /\ proc'[p].pc # proc[p].pc

WsTransactionStep == ws.pc = "membership" /\ ws'.pc # "membership"

\* C11: at most one store transaction is live at any time, and it holds the
\* store's lock; a commit request, a load or mark transaction of the turn
\* processor and the WebSocket membership check enter their body only when
\* no other transaction is live.
C11_OneLiveTransaction ==
    [][/\ Cardinality(LiveTransactions) <= 1
       /\ Cardinality(LiveTransactions') <= 1
       /\ \A h \in LiveTransactions : lock = h
       /\ LiveTransactions = {} => lock = None
       /\ \A c \in Clients : BodyStep(c) => LiveTransactions = {}
       /\ \A p \in Workers : WorkerTransactionStep(p) => LiveTransactions = {}
       /\ WsTransactionStep => LiveTransactions = {}]_vars

\* C11 witness: a commit request is inside its transaction while the
\* membership check of a WebSocket connection and the load transaction of
\* a delivered turn event wait to enter theirs.
C11_Witness ==
    /\ \E c \in Clients : InTransaction(c)
    /\ ws.pc = "membership"
    /\ \E p \in Workers : proc[p].pc = "load"

Quiescent ==
    /\ lock = None
    /\ \A c \in Clients : cli[c].pc = "idle"
    /\ \A p \in Workers : proc[p].pc = "idle"
    /\ ws.pc \in {"idle", "backlog", "streaming", "closed"}

TurnTimelineEvents(t) ==
    {i \in 1..Len(timeline) :
        timeline[i].topic = "turn" /\ timeline[i].payload.turnId = t}

TransitionAuditLogs(t) ==
    {i \in 1..Len(db_audit_logs) :
        /\ db_audit_logs[i].turn_id = t
        /\ db_audit_logs[i].event_type \in {"turn.ai.completed", "turn.ai.blocked"}}

\* C12: whenever no operation is in progress, each terminal turn has exactly
\* one `turn` timeline event and exactly one turn.ai.completed or
\* turn.ai.blocked audit log, both matching the turn's stored status, and
\* each turn still waiting_for_ai has neither.
C12_OneAuditLogAndOneEventPerTransition ==
    Quiescent =>
        \A t \in DOMAIN db_turns :
            IF Terminal(t)
            THEN /\ Cardinality(TurnTimelineEvents(t)) = 1
                 /\ Cardinality(TransitionAuditLogs(t)) = 1
                 /\ \A i \in TurnTimelineEvents(t) :
                       timeline[i].payload.status = db_turns[t].status
                 /\ \A i \in TransitionAuditLogs(t) :
                       db_audit_logs[i].event_type =
                           IF db_turns[t].status = "ai_completed"
                           THEN "turn.ai.completed" ELSE "turn.ai.blocked"
            ELSE /\ TurnTimelineEvents(t) = {}
                 /\ TransitionAuditLogs(t) = {}

TurnIds == (SeedTurnId + 1)..(SeedTurnId + MaxOps)

CommittedTurn(id) ==
    \E c \in Clients :
        /\ cli[c].pc = "idle"
        /\ cli[c].result.status = 201
        /\ cli[c].result.turn.id = id

\* the run's budget of operations is spent while the turn's event is still
\* on the queue
NeverDelivered(id) ==
    /\ ops = MaxOps
    /\ \E i \in 1..Len(queues) : queues[i].turn_id = id

\* C13: under fair scheduling every turn created by a successful commit
\* eventually is stored as ai_completed or blocked with a `turn` timeline
\* event appended for it (unless the run ends with its event still queued).
C13_CommittedTurnReachesTerminalState ==
    \A id \in TurnIds :
        CommittedTurn(id) ~>
            \/ /\ id \in DOMAIN db_turns
               /\ Terminal(id)
               /\ TurnTimelineEvents(id) # {}
            \/ NeverDelivered(id)

MarkBlockedStep(p) ==
    proc[p].pc = "mark_turn_blocked" /\ proc'[p].pc = "emit_blocked"

MarkCompletedStep(p) ==
    proc[p].pc = "mark_turn_completed" /\ proc'[p].pc = "emit_completed"

\* p's call of enqueue_json after its transition appended its event
EmitStep(p, pc) ==
    /\ proc[p].pc = pc
    /\ StepOf(p)
    /\ timeline' # timeline

OneAppended(before, after) ==
    /\ Len(after) = Len(before) + 1
    /\ SubSeq(after, 1, Len(before)) = before

AllPassed(safety) == \A i \in 1..Len(safety.results) : safety.results[i].passed

CompletionsPassedModeration ==
    /\ \A i \in 1..Len(timeline) :
          (timeline[i].topic = "turn" /\ timeline[i].payload.status = "ai_completed")
              => AllPassed(timeline[i].payload.safety)
    /\ \A i \in 1..Len(db_audit_logs) :
          db_audit_logs[i].event_type = "turn.ai.completed"
              => AllPassed(db_audit_logs[i].payload.safety)

\* C15: a patch with a moderation result that is not passed never reaches
\* _mark_turn_completed, so no completion audit log or timeline event
\* carries a failed result; its run makes the waiting turn blocked with
\* safety_status blocked and current_actor player, leaves ai_patch_uri
\* unset, and the `turn` timeline event it appends carries reason
\* policy_violation and a safety summary with passed = false.
C15_RejectedPatchNeverCompleted ==
    [][/\ CompletionsPassedModeration
       /\ CompletionsPassedModeration'
       /\ \A p \in Workers :
             LET t == proc[p].event.turn_id IN
             /\ proc'[p].pc = "mark_turn_completed" => AllPassed(proc'[p].mark.safety)
             /\ ( /\ proc'[p].pc = "mark_turn_blocked"
                  /\ proc'[p].mark.safety # NoSafety )
                    => /\ ~AllPassed(proc'[p].mark.safety)
                       /\ proc'[p].mark.reason = "policy_violation"
             /\ ( /\ MarkBlockedStep(p)
                  /\ proc[p].mark.reason = "policy_violation"
                  /\ db_turns[t].status = "waiting_for_ai" )
                    => /\ db_turns'[t].status = "blocked"
                       /\ db_turns'[t].safety_status = "blocked"
                       /\ db_turns'[t].current_actor = "player"
                       /\ db_turns'[t].ai_patch_uri = None
             /\ ( /\ EmitStep(p, "emit_blocked")
                  /\ proc[p].mark.reason = "policy_violation" )
                    => /\ OneAppended(timeline, timeline')
                       /\ LastOf(timeline').payload.turnId = t
                       /\ LastOf(timeline').payload.status = "blocked"
                       /\ LastOf(timeline').payload.reason = "policy_violation"
                       /\ LastOf(timeline').payload.safety.passed = FALSE]_vars

\* C15 witness: the AI answered with a patch whose instructions and labels
\* hold banned keywords and a cacheDir; the seeded turn is blocked, its
\* ai_patch_uri unset, and its timeline event says policy_violation.
C15_Witness ==
    /\ db_turns[SeedTurnId].status = "blocked"
    /\ db_turns[SeedTurnId].safety_status = "blocked"
    /\ db_turns[SeedTurnId].current_actor = "player"
    /\ db_turns[SeedTurnId].ai_patch_uri = None
    /\ \E i \in TurnTimelineEvents(SeedTurnId) :
          /\ timeline[i].payload.reason = "policy_violation"
          /\ timeline[i].payload.safety.passed = FALSE
          /\ timeline[i].payload.safety.reasons = <<"blood", "weapon">>

\* C16: when the AI call succeeded and every moderation result passed,
\* _mark_turn_completed makes the waiting turn ai_completed with
\* current_actor player and safety_status passed, sets ai_patch_uri to
\* cacheDir exactly when cacheDir is a non-empty string and otherwise leaves
\* it, and writes one turn.ai.completed audit log; the `turn` timeline
\* event appended says ai_completed, safetyStatus passed, safety.passed.
C16_CompletedTurn ==
    [][\A p \in Workers :
          LET t == proc[p].event.turn_id
              cache_dir == proc[p].mark.cache_dir
          IN
          /\ (MarkCompletedStep(p) /\ db_turns[t].status = "waiting_for_ai")
                => /\ db_turns'[t].status = "ai_completed"
                   /\ db_turns'[t].current_actor = "player"
                   /\ db_turns'[t].safety_status = "passed"
                   /\ db_turns'[t].ai_patch_uri =
                         IF cache_dir # None /\ cache_dir # ""
                         THEN cache_dir ELSE db_turns[t].ai_patch_uri
                   /\ OneAppended(db_audit_logs, db_audit_logs')
                   /\ LastOf(db_audit_logs').event_type = "turn.ai.completed"
                   /\ LastOf(db_audit_logs').turn_id = t
          /\ EmitStep(p, "emit_completed")
                => /\ OneAppended(timeline, timeline')
                   /\ LastOf(timeline').topic = "turn"
                   /\ LastOf(timeline').payload.turnId = t
                   /\ LastOf(timeline').payload.status = "ai_completed"
                   /\ LastOf(timeline').payload.safetyStatus = "passed"
                   /\ LastOf(timeline').payload.safety.passed = TRUE]_vars

\* C17: of any two timeline events, the one appended later has the cursor
\* that is greater under the event store's string comparison.
C17_CursorsFollowInsertionOrder ==
    \A i, j \in 1..Len(timeline) :
        i < j => str_gt(timeline[j].cursor, timeline[i].cursor)

\* C18: for the cursor of any event of the timeline, next_timeline_event
\* returns the event appended immediately after it, or none for the last
\* one; with a null cursor it returns the first event, or none on an empty
\* timeline.
C18_NextTimelineEventIsSuccessor ==
    /\ next_timeline_event(NoCursor) =
          IF timeline = << >> THEN NoEvent ELSE timeline[1]
    /\ \A i \in 1..Len(timeline) :
          next_timeline_event(timeline[i].cursor) =
              IF i = Len(timeline) THEN NoEvent ELSE timeline[i + 1]

RECURSIVE follow(_, _)
follow(cursor, fuel) ==
    IF fuel = 0 \/ next_timeline_event(cursor) = NoEvent THEN << >>
    ELSE <<next_timeline_event(cursor)>>
             \o follow(next_timeline_event(cursor).cursor, fuel - 1)

\* C19: for the cursor of any event of the timeline and any limit,
\* list_timeline returns the events appended after that event, in insertion
\* order, cut to the first `limit`; and following next_timeline_event from
\* a null cursor until it returns none yields list_timeline().
C19_ListTimelineIsSuffix ==
    /\ \A i \in 1..Len(timeline) :
          /\ list_timeline(timeline[i].cursor, NoLimit) =
                SubSeq(timeline, i + 1, Len(timeline))
          /\ \A limit \in 0..(Len(timeline) + 1) :
                list_timeline(timeline[i].cursor, limit) =
                    SubSeq(timeline, i + 1,
                           IF i + limit < Len(timeline) THEN i + limit
                           ELSE Len(timeline))
    /\ follow(NoCursor, 2 * Len(timeline) + 1) = list_timeline(NoCursor, NoLimit)

\* C20: the turn:events queue hands out every pushed item at most once and
\* in push order: the items pushed so far are the items popped so far
\* followed by the items still listed; a pop returns the oldest listed item
\* and removes it from the list, and on an empty queue returns none and
\* changes nothing in the event store.
C20_QueueIsFifo ==
    [][/\ es.pushed = es.popped \o queues
       /\ es'.pushed = es'.popped \o queues'
       /\ es'.pops # es.pops =>
             IF queues = << >>
             THEN /\ es'.last = NoEvent
                  /\ es'.popped = es.popped
                  /\ UNCHANGED redis_vars
             ELSE /\ es'.last = queues[1]
                  /\ es'.popped = Append(es.popped, queues[1])
                  /\ es'.last \notin Range(queues')
                  /\ UNCHANGED <<streams, sequences, timeline, timeline_seq>>]_vars

\* C20 witness: pushes and pops have alternated until every one of three
\* pushed items was popped, and a further pop found the queue empty.
C20_Witness ==
    /\ Len(es.pushed) = 3
    /\ es.popped = es.pushed
    /\ es.pops = 4
    /\ es.last = NoEvent

ObjectEventsOf(stream, o) ==
    {i \in 1..Len(list_stream(stream)) :
        /\ list_stream(stream)[i].topic = "object"
        /\ list_stream(stream)[i].payload.id = o}

QueueItemsOf(o) == {i \in 1..Len(es.pushed) : es.pushed[i].object_id = o}

\* C21: every object stored by a successful commit_object has exactly one
\* object-topic event on the ws:object-events stream, exactly one on the
\* ws:events stream and exactly one item pushed on turn:events, and its
\* object events carry the object's roomId.
C21_CommitEmitsObjectEventsAndQueueItem ==
    \A o \in DOMAIN db_objects \ {SeedObjectId} :
        /\ Cardinality(ObjectEventsOf("ws:object-events", o)) = 1
        /\ Cardinality(ObjectEventsOf("ws:events", o)) = 1
        /\ Cardinality(QueueItemsOf(o)) = 1
        /\ \A stream \in {"ws:object-events", "ws:events"} :
              \A i \in ObjectEventsOf(stream, o) :
                  list_stream(stream)[i].roomId = db_objects[o].room_id

\* the audit logs written by the commit of the transaction on whose behalf
\* timeline event i was appended: object.committed of the event's object,
\* or the transition log of the event's turn
CommitLogsOf(i) ==
    {a \in 1..Len(db_audit_logs) :
        IF timeline[i].topic = "object"
        THEN /\ db_audit_logs[a].event_type = "object.committed"
             /\ db_audit_logs[a].payload.object_id = timeline[i].payload.id
        ELSE /\ db_audit_logs[a].event_type \in {"turn.ai.completed", "turn.ai.blocked"}
             /\ db_audit_logs[a].turn_id = timeline[i].payload.turnId}

\* C22: the timeline lists the events of committed transactions in the
\* order in which the transactions committed: of two timeline events whose
\* transactions have each committed once, the one whose transaction
\* committed first comes first, `turn` events of the turn processor and
\* object events of commits alike.
C22_TimelineOrderIsCommitOrder ==
    \A i, j \in 1..Len(timeline) :
        ( /\ i < j
          /\ Cardinality(CommitLogsOf(i)) = 1
          /\ Cardinality(CommitLogsOf(j)) = 1 )
            => \A a \in CommitLogsOf(i), b \in CommitLogsOf(j) : a < b

RoomEventsOf(r) == SelectSeq(timeline, LAMBDA event : event.roomId = r)

IsPrefix(s, t) == Len(s) <= Len(t) /\ s = SubSeq(t, 1, Len(s))

\* the place in timeline tl a cursor stands for (0 for the null cursor)
PositionIn(tl, cursor) ==
    IF cursor = NoCursor THEN 0
    ELSE CHOOSE i \in 1..Len(tl) : tl[i].cursor = cursor

Subscribed == ws.pc \in {"backlog", "streaming"}

SentInOrder ==
    Subscribed =>
        /\ IsPrefix(ws.sent, RoomEventsOf(ws.room_id))
        /\ (ws.pc = "streaming" /\ next_timeline_event(ws.cursor) = NoEvent)
              => ws.sent = RoomEventsOf(ws.room_id)

\* C23: a subscriber of room R that connected with a null cursor has been
\* sent the events of R in timeline order, each once (what it was sent is a
\* prefix of R's events); once next_timeline_event has nothing for its
\* cursor it has been sent all of them, whatever events of other rooms lie
\* between; and its cursor never moves to an earlier place of the timeline.
C23_SubscriberReceivesRoomEventsInOrder ==
    [][/\ SentInOrder
       /\ SentInOrder'
       /\ (Subscribed /\ Subscribed') =>
             PositionIn(timeline', ws'.cursor) >= PositionIn(timeline, ws.cursor)]_vars

Admissible ==
    /\ ws.role \in UserRoles
    /\ ws.room_id \in DOMAIN db_rooms
    /\ ws.role = "player" => <<ws.room_id, ws.user_id>> \in db_members

\* C24: every event sent on a WebSocket connection has the roomId of the
\* connection's path; a connection whose token is missing or invalid, whose
\* room does not exist or whose subject is a player who is not a member of
\* the room is sent nothing and is closed instead of reaching the replay;
\* a moderator or parent who is not a member is admitted to the room.
C24_SubscriberSeesOnlyItsRoom ==
    /\ \A i \in 1..Len(ws.sent) : ws.sent[i].roomId = ws.room_id
    /\ ~Admissible => (ws.sent = << >> /\ ~Subscribed)
    /\ (Admissible /\ ws.pc # "membership") => Subscribed

\* C24 witness: a moderator who is not a member of r1 has been sent events
\* of r1, fewer than the timeline holds because an event of r2 was skipped.
C24_Witness ==
    /\ ws.role = "moderator"
    /\ <<ws.room_id, ws.user_id>> \notin db_members
    /\ ws.sent # << >>
    /\ OtherRoomEvents # << >>
    /\ ws.pc = "streaming"
    /\ next_timeline_event(ws.cursor) = NoEvent
    /\ Len(ws.sent) < Len(timeline)

(* ------------- C25: who may read /internal/events/next ----------------- *)
\* the last request carried a bearer token of a moderator or a parent
HasPrivilegedSubject ==
    IF http.token = NoToken THEN FALSE
    ELSE /\ http.token.signed
         /\ ~http.token.expired
         /\ http.token.role \in {"moderator", "parent"}

HasServiceKey == http.service_key = realtime_service_key

\* C25: a request to GET /internal/events/next is served (200 or 204)
\* exactly when it carries a bearer token of a moderator or parent or the
\* configured service key, whatever the other credential is; a request
\* with neither is answered 401 and does not read the timeline.
C25_EitherCredentialSuffices ==
    http.status # 0 =>
        /\ (HasPrivilegedSubject \/ HasServiceKey) <=> http.status \in {200, 204}
        /\ (http.token = NoToken /\ http.service_key = NoKey)
               => (http.status = 401 /\ ~http.read)

(* --------------- C26: polling /internal/events/next -------------------- *)
\* the events of timeline tl that follow the place of cursor
NewerThan(tl, cursor) == SubSeq(tl, PositionIn(tl, cursor) + 1, Len(tl))

FirstN(s, n) == SubSeq(s, 1, IF n < Len(s) THEN n ELSE Len(s))

\* C26: an authorised request answers 204 exactly when no timeline event
\* follows the cursor it sent; otherwise it returns the first `limit`
\* events that follow the cursor, oldest first, and the cursor of the last
\* of them; the events of successive polls are a prefix of the timeline.
C26_PollingNeitherRepeatsNorSkips ==
    [][(http'.read /\ http' # http) =>
          /\ http'.status = 204 <=> NewerThan(timeline, http.cursor) = << >>
          /\ http'.status = 200 =>
                /\ http'.events = FirstN(NewerThan(timeline, http.cursor), http'.limit)
                /\ http'.cursor = LastOf(http'.events).cursor
          /\ IsPrefix(http'.received, timeline)]_vars

(* ------------------------ C27: stopping the worker --------------------- *)
\* the worker's task is over: _run returned
WorkerExited == tp.task = "done"

\* no commit request is under way
CommitsAtRest == lock = None /\ \A c \in Clients : cli[c].pc = "idle"

StoppedCleanly ==
    /\ tp.stop = "returned" => (WorkerExited /\ proc["p1"].pc = "idle")
    /\ (WorkerExited /\ tp.busy_at_stop /\ redis_failures = 0 /\ CommitsAtRest) =>
          LET t == proc["p1"].event.turn_id
          IN  /\ t \in DOMAIN db_turns
              /\ Terminal(t)
              /\ TurnTimelineEvents(t) # {}
    /\ (WorkerExited /\ redis_failures = 0 /\ CommitsAtRest) =>
          \A i \in 1..Len(queues) :
              /\ queues[i].turn_id \in DOMAIN db_turns
              /\ db_turns[queues[i].turn_id].status = "waiting_for_ai"

\* C27: once stop() has set the flag the worker pops nothing more; it exits
\* only between items, the item it was processing when the flag was set
\* having reached a terminal turn with its timeline event (the event store
\* accepting the append); stop() returns only after the worker has exited;
\* the items left on turn:events belong to turns still waiting_for_ai.
C27_StopFinishesCurrentItemOnly ==
    [][/\ StoppedCleanly'
       /\ tp.stop_event => es'.popped = es.popped]_vars

(* ------------------- C30: refusals of commit_object -------------------- *)
RoomAbsent(req) == req.room_id \notin DOMAIN db_rooms
NoStrokes(req) == req.stroke_ids = << >>
StrokeMissingOrForeign(req) == ~strokes_found(req.room_id, req.stroke_ids)

\* C30 as stated: a commit on an absent room fails with 404, and a commit
\* with an empty stroke list or with a missing or foreign stroke fails with
\* 400; none changes the store, the streams, the timeline or the queue.
C30_AsStated ==
    [][\A c \in Clients :
          BodyStep(c) =>
              /\ RoomAbsent(cli[c].req) => RefusedWithoutChange(c, 404)
              /\ (NoStrokes(cli[c].req) \/ StrokeMissingOrForeign(cli[c].req))
                    => RefusedWithoutChange(c, 400)]_vars

\* C30 amended: a commit with an empty stroke list fails with 400 whether
\* or not the room exists; a commit that lists strokes for an absent room
\* fails with 404; a commit on an existing room that lists a missing or
\* foreign stroke fails with 400; none changes the store, the streams, the
\* timeline or the queue.
C30_RefusalsInOrder ==
    [][\A c \in Clients :
          BodyStep(c) =>
              /\ NoStrokes(cli[c].req) => RefusedWithoutChange(c, 400)
              /\ (~NoStrokes(cli[c].req) /\ RoomAbsent(cli[c].req))
                    => RefusedWithoutChange(c, 404)
              /\ ( /\ ~NoStrokes(cli[c].req)
                   /\ ~RoomAbsent(cli[c].req)
                   /\ StrokeMissingOrForeign(cli[c].req) )
                    => RefusedWithoutChange(c, 400)]_vars

\* C30 witness: a commit was refused with 404, the store holding committed
\* objects of earlier requests
C30_Witness ==
    /\ cli["c1"].pc = "idle"
    /\ cli["c1"].result.status = 404
    /\ next_object_id > SeedObjectId + 1

(* --------------- C28: a snapshot write that fails ---------------------- *)
\* what the calls of a transaction body saved is in the store
MutationsVisible(body) ==
    \A i \in 1..Len(body) :
        IF body[i].op = "save_room_member"
        THEN \E j \in 1..Len(members) : members[j] = body[i].arg
        ELSE /\ body[i].arg.id \in DOMAIN db_turns
             /\ db_turns[body[i].arg.id] = body[i].arg

SnapshotWriteFailed == tx.changed /\ ~tx.persisted

\* C28: when _persist fails after a commit that changed the store, what
\* the transaction saved is in the store and the caller of the transaction
\* gets no exception.
C28_SnapshotFailureDoesNotAbort ==
    SnapshotWriteFailed => (MutationsVisible(tx.body) /\ tx.outcome = "returned")

(* ------------------- C29: the snapshot round trip ---------------------- *)
\* as dicts: the members by their key
MemberMap(ms) ==
    [k \in {<<ms[i].room_id, ms[i].user_id>> : i \in 1..Len(ms)} |->
        CHOOSE m \in Range(ms) : <<m.room_id, m.user_id>> = k]

Member(room_id, user_id) == MemberMap(members)[<<room_id, user_id>>]

\* each room's members are listed in the order they joined
MembersInJoinOrder ==
    \A r \in Rooms :
        LET ids == room_member_index[r]
        IN  /\ Range(ids) = {k[2] : k \in {k \in db_members : k[1] = r}}
            /\ \A i, j \in 1..Len(ids) :
                   i < j => Member(r, ids[i]).joined_at < Member(r, ids[j]).joined_at

\* each room's turns are listed in the order of their sequence numbers
TurnsInSequenceOrder ==
    \A r \in Rooms :
        LET ids == room_turn_index[r]
        IN  /\ Range(ids) = {t \in DOMAIN db_turns : db_turns[t].room_id = r}
            /\ \A i, j \in 1..Len(ids) :
                   i < j => db_turns[ids[i]].sequence < db_turns[ids[j]].sequence

SkippedEvent(event) ==
    \/ event.turn_id \notin DOMAIN db_turns
    \/ db_turns[event.turn_id].status # "waiting_for_ai"
    \/ event.object_id \notin DOMAIN db_objects

\* C33: _process_event on an event whose turn or object is missing, or whose
\* turn is not waiting_for_ai, returns after _load_turn_context without the
\* AI call and leaves the store, the queue, the streams, the timeline and
\* the snapshot file as they were.
C33_SkippedEventChangesNothing ==
    [][\A p \in Workers :
          (proc[p].pc = "load" /\ StepOf(p) /\ SkippedEvent(proc[p].event))
              => /\ proc'[p].pc = "idle"
                 /\ UNCHANGED <<db_vars, redis_vars, snapshot_vars>>]_vars

\* C33 witness: a call has returned whose event names the seeded turn, still
\* waiting_for_ai, and an object that the store does not hold.
C33_Witness ==
    /\ ops > 0
    /\ proc["p1"].pc = "idle"
    /\ proc["p1"].event.turn_id = SeedTurnId
    /\ proc["p1"].event.object_id \notin DOMAIN db_objects
    /\ db_turns[SeedTurnId].status = "waiting_for_ai"

IsSuffix(s, t) == Len(s) <= Len(t) /\ s = SubSeq(t, Len(t) - Len(s) + 1, Len(t))

\* C34: the n-th event that enqueue_json appends to a topic stream carries
\* that stream's sequence number n, whatever was appended to other streams;
\* each appended event is on the timeline exactly once and the timeline
\* holds nothing else, so its length is the total number of appends; a push
\* whose key starts with "turn:" goes to that key's queue and adds nothing
\* to any stream or to the timeline.
C34_SequencePerStreamOneTimelineCopy ==
    /\ \A k \in Keys : \A i \in 1..Len(es.appended[k]) :
          /\ es.appended[k][i].sequence = i
          /\ es.appended[k][i].stream = k
          /\ Cardinality({ n \in 1..Len(timeline) : timeline[n] = es.appended[k][i] }) = 1
    /\ Len(timeline) = Cardinality(Appends)
    /\ \A k \in Keys :
          IF startswith(k, <<"t", "u", "r", "n", ":">>)
          THEN /\ es.appended[k] = << >>
               /\ streams[k] = << >>
               /\ sequences[k] = 0
               /\ IsSuffix(queues[k], es.pushed[k])
          ELSE /\ es.pushed[k] = << >>
               /\ queues[k] = << >>

\* C34 witness: an append to ws:events, a push on turn:events and an append
\* to another stream, which starts again at sequence 1; the timeline holds
\* the two appended events and the queue the pushed item.
C34_Witness ==
    /\ Len(timeline) = 2
    /\ timeline[1].stream = WS_EVENT_STREAM
    /\ timeline[2].stream = <<"t", "u", "r", "n", "s">>
    /\ timeline[2].sequence = 1
    /\ Len(queues[TURN_QUEUE_KEY]) = 1

\* C36: the audit logs, every topic stream and the timeline only grow at
\* the end: no step of the store or of the event-store wrapper (enqueue_json,
\* list_events, pop_event, next_timeline_event, list_timeline_events)
\* removes, reorders or rewrites an entry that was appended.
C36_AppendOnly ==
    [][/\ IsPrefix(db_audit_logs, db_audit_logs')
       /\ IsPrefix(timeline, timeline')
       /\ \A k \in Keys : IsPrefix(streams[k], streams'[k])]_vars

\* C35: when the replay loop of room_events ends, the connection's cursor
\* is the cursor of the last event that list_timeline(cursor, 50) returned,
\* whether or not that event belongs to the connection's room.
C35_ReplayAdvancesCursorPastFiltered ==
    [][(/\ ws.pc = "backlog"
        /\ ws'.pc = "streaming"
        /\ list_timeline(ws.cursor, BacklogLimit) # << >>)
          => ws'.cursor = LastOf(list_timeline(ws.cursor, BacklogLimit)).cursor]_vars

\* C37: SafetySummary.passed is true exactly when every child result
\* passed, and the summary's reasons are the children's reasons one after
\* the other in the children's order; _run_safety_checks returns a single
\* passing text result when the patch has no non-blank instructions and
\* neither the patch nor the object supplies a label.
C37_SafetySummaryAggregates ==
    /\ moderation.fn = "to_payload" =>
          LET results == moderation.results
              child(i) == IF i <= Len(results) THEN results[i].reasons ELSE << >>
          IN  /\ Len(results) \in {1, 2}
              /\ moderation.payload.passed = (\A i \in 1..Len(results) : results[i].passed)
              /\ moderation.payload.reasons = child(1) \o child(2)
    /\ ( /\ moderation.fn \in {"_run_safety_checks", "to_payload"}
         /\ moderation.patch.instructions = NoText
         /\ moderation.patch.labels = << >>
         /\ moderation.canvas_object.label = NoText )
          => moderation.results = <<[category |-> "text", passed |-> TRUE, reasons |-> << >>]>>

\* C37 witness: a summary of two children that both failed, the text on two
\* keywords and the labels on one; its payload has been built.
C37_Witness ==
    /\ moderation.fn = "to_payload"
    /\ Len(moderation.results) = 2
    /\ Len(moderation.results[1].reasons) = 2
    /\ Len(moderation.results[2].reasons) = 1
    /\ ~moderation.payload.passed

\* kw occurs in text when some stretch of the text, capitals read as small
\* letters, spells kw.
OccursIn(kw, text) ==
    \E i \in 1..Len(text), j \in 1..Len(text) : SubSeq(lower(text), i, j) = kw

OccurringKeywords(texts) ==
    SelectSeq(settings_banned_keywords,
              LAMBDA kw : \E n \in 1..Len(texts) : OccursIn(kw, texts[n]))

\* C38: the reasons of evaluate_text are the configured banned keywords that
\* occur in the text as a substring, letter case ignored, and the reasons of
\* evaluate_labels are those that occur so in any of the labels; passed is
\* true exactly when the reasons are empty.
C38_ReasonsAreOccurringKeywords ==
    /\ moderation.text_result # NotCalled =>
          /\ moderation.text_result.reasons = OccurringKeywords(<<moderation.text>>)
          /\ moderation.text_result.passed = (moderation.text_result.reasons = << >>)
    /\ moderation.labels_result # NotCalled =>
          /\ moderation.labels_result.reasons = OccurringKeywords(moderation.labels)
          /\ moderation.labels_result.passed = (moderation.labels_result.reasons = << >>)

\* C39: the fields of every stored turn agree with its status: a turn
\* waiting_for_ai has actor ai and neither safety_status nor ai_patch_uri;
\* an ai_completed turn has actor player and safety_status passed; a blocked
\* turn has safety_status blocked with actor player or safety_status error
\* with actor ai; ai_patch_uri is set on ai_completed turns only.
C39_TurnFieldsAgreeWithStatus ==
    \A t \in DOMAIN db_turns :
        LET turn == db_turns[t]
        IN  /\ turn.status \in {"waiting_for_ai", "ai_completed", "blocked"}
            /\ turn.status = "waiting_for_ai" =>
                  /\ turn.current_actor = "ai"
                  /\ turn.safety_status = None
                  /\ turn.ai_patch_uri = None
            /\ turn.status = "ai_completed" =>
                  /\ turn.current_actor = "player"
                  /\ turn.safety_status = "passed"
            /\ turn.status = "blocked" =>
                  \/ turn.safety_status = "blocked" /\ turn.current_actor = "player"
                  \/ turn.safety_status = "error" /\ turn.current_actor = "ai"
            /\ turn.ai_patch_uri # None => turn.status = "ai_completed"

\* C40: whenever no transaction is in progress, every item on turn:events
\* names a turn and an object of the store, every object event on the
\* timeline names an object and a turn of the store, and every `turn` event
\* on the timeline names a turn of the store for which the transition to the
\* status it reports has been committed (its audit log is stored).
C40_EventsReferToCommittedState ==
    lock = None =>
        /\ \A i \in 1..Len(queues) :
              /\ queues[i].turn_id \in DOMAIN db_turns
              /\ queues[i].object_id \in DOMAIN db_objects
        /\ \A i \in 1..Len(timeline) :
              /\ timeline[i].payload.turnId \in DOMAIN db_turns
              /\ timeline[i].topic = "object" => timeline[i].payload.id \in DOMAIN db_objects
              /\ timeline[i].topic = "turn" =>
                    \E a \in 1..Len(db_audit_logs) :
                        /\ db_audit_logs[a].turn_id = timeline[i].payload.turnId
                        /\ db_audit_logs[a].event_type =
                              (IF timeline[i].payload.status = "ai_completed"
                               THEN "turn.ai.completed" ELSE "turn.ai.blocked")

\* C32: a create-room, join-room or commit-object request of a player that
\* names a host, user or owner other than the player is answered 403 before
\* the service function is entered, and the store, the streams, the timeline
\* and the queue stay as they were; the same request of a moderator or a
\* parent is not answered 403 and reaches the service function.
C32_PlayersActForThemselvesOnly ==
    [][http' # http =>
          /\ ( /\ http'.subject.role = "player"
               /\ http'.user_id # http'.subject.user_id )
                 => /\ http'.status = 403
                    /\ ~http'.entered
                    /\ UNCHANGED <<db_vars, redis_vars, snapshot_vars, lock, cli>>
          /\ ( /\ http'.subject.role \in {"moderator", "parent"}
               /\ http'.user_id # http'.subject.user_id )
                 => /\ http'.status # 403
                    /\ http'.entered]_vars

\* C32 witness: player u1 asked to commit an object owned by u2 and was
\* answered 403, after an earlier request had been served.
C32_Witness ==
    /\ http.status = 403
    /\ http.endpoint = "commit_object"
    /\ http.subject = AuthenticatedSubject("u1", "player")
    /\ http.user_id = "u2"
    /\ http.request > 1

MembersOf(all, room_id) == SelectSeq(all, LAMBDA member : member.room_id = room_id)

\* C31: through any sequence of create_room and join_room calls a (room,
\* user) pair has at most one member record and a stored record never
\* changes; a room that create_room returned is stored with exactly one
\* host, its creator; join_room by a user who is a member already returns
\* the room's full member list, leaves the members as they were and writes
\* no room.joined audit log.
C31_OneRecordPerMemberOneHostPerRoom ==
    [][/\ \A i, j \in 1..Len(members') :
             ( /\ members'[i].room_id = members'[j].room_id
               /\ members'[i].user_id = members'[j].user_id ) => i = j
       /\ IsPrefix(members, members')
       /\ ( /\ http' # http
            /\ http'.endpoint = "create_room"
            /\ http'.entered )
              => /\ http'.status = 201
                 /\ http'.snapshot.room.id \in DOMAIN db_rooms'
                 /\ \E i \in 1..Len(members') :
                       /\ members'[i] = http'.snapshot.member
                       /\ members'[i].role = "host"
                       /\ members'[i].user_id = http'.user_id
                       /\ \A j \in 1..Len(members') :
                             ( /\ members'[j].room_id = members'[i].room_id
                               /\ members'[j].role = "host" ) => j = i
       /\ ( /\ http' # http
            /\ http'.endpoint = "join_room"
            /\ http'.entered
            /\ <<http'.room_id, http'.user_id>> \in db_members )
              => /\ http'.status = 200
                 /\ http'.snapshot.members = MembersOf(members, http'.room_id)
                 /\ members' = members
                 /\ db_audit_logs' = db_audit_logs]_vars

====
